---------------------------- MODULE Spec2Model ----------------------------
(***************************************************************************)
(* A model of the NVG-CPC catalogue synchroniser (sql.py): the main        *)
(* program reads the catalogue CSV file and the author-alias CSV file and  *)
(* reconciles a MySQL database with them.                                  *)
(*                                                                         *)
(* Conventions:                                                            *)
(*  - a Python dict is a function; a key that is absent from the dict is   *)
(*    absent from the DOMAIN.  A table row is a function from column names *)
(*    to values and a NULL column is absent from the row's DOMAIN;         *)
(*  - a delimited CSV field is [str |-> pieces]: the sequence of the       *)
(*    pieces of text between the delimiters (what str.split returns);      *)
(*    after conversion a field holds [int |-> id] or [list |-> elements];  *)
(*  - the store variables hold the committed state of the database; an     *)
(*    action that writes models one transaction up to its commit or to the *)
(*    statement that fails.                                                *)
(***************************************************************************)
EXTENDS Integers, Sequences, FiniteSets, TLC

\* ------------------------------------------------------------------ bounds

\* Number of runs of the program in one behaviour.
MaxRuns == 2

\* Number of store errors (sql.OperationalError) injected in one behaviour.
MaxFaults == 1

\* ------------------------------------------------------- dicts and strings

EmptyDict == [x \in {} |-> x]

Has(d, k) == k \in DOMAIN d

Get(d, k, default) == IF k \in DOMAIN d THEN d[k] ELSE default

Put(d, k, v) == [x \in (DOMAIN d) \cup {k} |-> IF x = k THEN v ELSE d[x]]

Del(d, k) == [x \in (DOMAIN d) \ {k} |-> d[x]]

\* dict.update(other)
Update(d, other) ==
    [x \in (DOMAIN d) \cup (DOMAIN other) |->
        IF x \in DOMAIN other THEN other[x] ELSE d[x]]

Range(s) == {s[i] : i \in DOMAIN s}

\* Every string of the model, in ascending order of Python's string
\* comparison (code points: ' ' < '.' < '?' < 'A'..'Z' < 'a'..'z').
codepoint_order ==
    << "?", "ARCADE GAME", "Al", "Alice", "Arcade game", "Bob", "Commercial", "T", "Util",
       "Utility", "X", "Y", "a.zip", "al", "alice", "arcade game", "b.zip",
       "bob", "c", "commercial", "util", "utility", "x", "y" >>

StrRank(s) == CHOOSE i \in DOMAIN codepoint_order : codepoint_order[i] = s

\* str.lower
StrLower(s) ==
    CASE s = "ARCADE GAME" -> "arcade game"
      [] s = "Al" -> "al"
      [] s = "Alice" -> "alice"
      [] s = "Arcade game" -> "arcade game"
      [] s = "Bob" -> "bob"
      [] s = "Commercial" -> "commercial"
      [] s = "T" -> "t"
      [] s = "Util" -> "util"
      [] s = "Utility" -> "utility"
      [] s = "X" -> "x"
      [] s = "Y" -> "y"
      [] OTHER -> s

\* str.strip: the pieces of the model that carry white space
StrStrip(s) ==
    CASE s = " ARCADE GAME" -> "ARCADE GAME"
      [] s = " Al" -> "Al"
      [] s = " Arcade game" -> "Arcade game"
      [] s = " Bob" -> "Bob"
      [] s = " Utility" -> "Utility"
      [] s = " Y" -> "Y"
      [] OTHER -> s

\* The sort keys of sorted(..., key=str.lower) and of sorted(...)
LowerKey(s) == StrRank(StrLower(s))
PlainKey(s) == StrRank(s)

\* sorted(): a stable sort of the sequence s by the key function k
InsertStable(sorted, x, k) ==
    LET n == Cardinality({i \in 1..Len(sorted) : k[sorted[i]] <= k[x]})
    IN  SubSeq(sorted, 1, n) \o <<x>> \o SubSeq(sorted, n + 1, Len(sorted))

RECURSIVE SortedBy(_, _)
SortedBy(s, k) ==
    IF Len(s) = 0 THEN <<>>
    ELSE InsertStable(SortedBy(SubSeq(s, 1, Len(s) - 1), k), s[Len(s)], k)

\* The keys of a dict as a sequence (the order is fixed by the sort that
\* every use applies to it)
RECURSIVE SetToSeq(_)
SetToSeq(S) ==
    IF S = {} THEN <<>>
    ELSE LET x == CHOOSE y \in S : TRUE IN <<x>> \o SetToSeq(S \ {x})

SortedLower(S) == SortedBy(SetToSeq(S), [s \in S |-> LowerKey(s)])
SortedPlain(S) == SortedBy(SetToSeq(S), [s \in S |-> PlainKey(s)])

\* s with the elements that fail Keep removed, in order (Keep is a set)
RECURSIVE Filter(_, _)
Filter(s, Keep) ==
    IF Len(s) = 0 THEN <<>>
    ELSE (IF s[1] \in Keep THEN <<s[1]>> ELSE <<>>) \o Filter(Tail(s), Keep)

\* A text the program matches against a pattern or converts to a number:
\* the sequence of its characters
Text(chars) == [chars |-> chars]
IsText(v) == DOMAIN v = {"chars"}

Digits == << "0", "1", "2", "3", "4", "5", "6", "7", "8", "9" >>

IsDigits(chars) == \A i \in DOMAIN chars : chars[i] \in Range(Digits)

\* int(text) for a text of digits
RECURSIVE int(_)
int(chars) ==
    IF Len(chars) = 0 THEN 0
    ELSE 10 * int(SubSeq(chars, 1, Len(chars) - 1))
           + (CHOOSE d \in 0..9 : Digits[d + 1] = chars[Len(chars)])

\* datetime.date(year, month, day) raises ValueError unless the three make
\* a date of the calendar
DaysInMonth(year, month) ==
    IF month = 2
    THEN (IF year % 4 = 0 /\ (year % 100 # 0 \/ year % 400 = 0) THEN 29 ELSE 28)
    ELSE IF month \in {4, 6, 9, 11} THEN 30 ELSE 31

IsCalendarDate(year, month, day) ==
    /\ year \in 1..9999
    /\ month \in 1..12
    /\ day \in 1..DaysInMonth(year, month)

\* ------------------------------------------------------ program constants

memory_required_valid_values == {64, 128, 256}

author_field_list ==
    << "PUBLISHER", "RE-RELEASED BY", "CRACKER", "DEVELOPER", "AUTHOR",
       "DESIGNER", "ARTIST", "MUSICIAN" >>

type_correction_dict ==
    [t \in {"Games compilation", "Sport game", "Util", "UTILITY", "Utilities"} |->
        CASE t = "Games compilation" -> "Compilation"
          [] t = "Sport game" -> "Sports game"
          [] OTHER -> "Utility"]

\* MySQL error numbers the methods of class Database test for
ER_TOO_BIG_SET == 1097
WARN_DATA_TRUNCATED == 1265

\* The members a column of the type SET may have
MaxSetMembers == 64

\* A CSV field as the program holds it: the text between the delimiters
StrVal(pieces) == [str |-> pieces]
IntVal(n) == [int |-> n]
ListVal(elems) == [list |-> elems]
IsStr(v) == DOMAIN v = {"str"}
IsInt(v) == DOMAIN v = {"int"}

\* ------------------------------------------------------------------ inputs

\* What read_nvg_csv_file returns for one row: 'Size' and the non-empty
\* columns (src/nvg/csv.py:56-64)
SizeOnly(n) == "Size" :> n

NoField == EmptyDict

TitleChoices == {NoField, "TITLE" :> "T"}

TypeChoices ==
    { NoField,
      "TYPE" :> StrVal(<<"Arcade game">>),
      ("TYPE" :> StrVal(<<"Util">>)) @@ ("PUBLICATION" :> StrVal(<<"Commercial">>)) }

CommentChoices == {NoField, "COMMENTS" :> "c", "COMMENTS" :> "?"}

AuthorChoices ==
    { NoField,
      "AUTHOR" :> StrVal(<<"Bob">>),
      "AUTHOR" :> StrVal(<<"Bob", " Al">>),
      "AUTHOR" :> StrVal(<<"Al", " Bob">>),
      "AUTHOR" :> StrVal(<<"Bob", " Bob">>) }

PublisherChoices == {NoField, "PUBLISHER" :> StrVal(<<"Al">>)}

AkaChoices ==
    { NoField,
      "ALSO KNOWN AS" :> StrVal(<<"X">>),
      "ALSO KNOWN AS" :> StrVal(<<"Y">>),
      "ALSO KNOWN AS" :> StrVal(<<"X", " Y">>),
      "ALSO KNOWN AS" :> StrVal(<<"Y", "X">>),
      "ALSO KNOWN AS" :> StrVal(<<"X", "X">>) }

\* TYPE fields that hold a comma or names that differ only in case
ListedTypeChoices ==
    { NoField,
      "TYPE" :> StrVal(<<"Arcade game", " Utility">>),
      "TYPE" :> StrVal(<<"arcade game", " ARCADE GAME", " Arcade game">>),
      "TYPE" :> StrVal(<<"ARCADE GAME">>) }

\* Upload dates: 01/02/2003, 31/02/2003 (no date of the calendar), 1/2/2003
\* (not dd/mm/yyyy) and '?'
UploadDateChoices ==
    { NoField,
      "Upload Date" :> Text(<<"0", "1", "/", "0", "2", "/", "2", "0", "0", "3">>),
      "Upload Date" :> Text(<<"3", "1", "/", "0", "2", "/", "2", "0", "0", "3">>),
      "Upload Date" :> Text(<<"1", "/", "2", "/", "2", "0", "0", "3">>),
      "Upload Date" :> Text(<<"?">>) }

\* MEMORY REQUIRED: 64K, 512K and 64
MemoryRequiredChoices ==
    { NoField,
      "MEMORY REQUIRED" :> Text(<<"6", "4", "K">>),
      "MEMORY REQUIRED" :> Text(<<"5", "1", "2", "K">>),
      "MEMORY REQUIRED" :> Text(<<"6", "4">>) }

\* The rows of the catalogue: each behaviour varies one group of columns
Focuses == {"files", "authors", "titles", "aliases", "fields"}

RowsA(f) ==
    CASE f = "files" ->
            {SizeOnly(20),
             SizeOnly(10) @@ ("TYPE" :> StrVal(<<"Util">>))
                 @@ ("PUBLICATION" :> StrVal(<<"Commercial">>))
                 @@ ("AUTHOR" :> StrVal(<<"Bob">>))} \cup
            {SizeOnly(10) @@ t @@ ty @@ c :
                t \in TitleChoices, ty \in TypeChoices, c \in CommentChoices}
      [] f = "authors" ->
            {SizeOnly(10) @@ a @@ p : a \in AuthorChoices, p \in PublisherChoices}
      [] f = "titles" ->
            {SizeOnly(10) @@ ("ALSO KNOWN AS" :> StrVal(<<"X">>))
                 @@ ("AUTHOR" :> StrVal(<<"Bob">>))} \cup
            {SizeOnly(10) @@ k : k \in AkaChoices}
      [] f = "fields" ->
            {SizeOnly(10) @@ ty : ty \in ListedTypeChoices} \cup
            {SizeOnly(10) @@ d : d \in UploadDateChoices} \cup
            {SizeOnly(10) @@ m : m \in MemoryRequiredChoices}
      [] OTHER ->
            {SizeOnly(10) @@ ("AUTHOR" :> StrVal(<<"Bob">>)),
             SizeOnly(10) @@ ("AUTHOR" :> StrVal(<<"Al">>))}

RowsB(f) ==
    CASE f = "files" -> {SizeOnly(10)}
      [] f = "authors" -> {SizeOnly(10), SizeOnly(10) @@ ("AUTHOR" :> StrVal(<<"Bob">>))}
      [] f = "titles" -> {SizeOnly(10), SizeOnly(10) @@ ("ALSO KNOWN AS" :> StrVal(<<"X">>))}
      [] f = "fields" -> {SizeOnly(10), SizeOnly(10) @@ ("TYPE" :> StrVal(<<"Utility">>))}
      [] OTHER -> {}

\* The catalogue files (00_table.csv) a run may read
Catalogs(f) ==
    {EmptyDict}
      \cup {"a.zip" :> ra : ra \in RowsA(f)}
      \cup {"b.zip" :> rb : rb \in RowsB(f)}
      \cup {("a.zip" :> ra) @@ ("b.zip" :> rb) : ra \in RowsA(f), rb \in RowsB(f)}

\* The author-alias files (author_aliases.csv) a run may find: none, or a
\* file with these rows
AliasFiles(f) ==
    IF f = "aliases"
    THEN { [present |-> FALSE, rows |-> EmptyDict],
           [present |-> TRUE, rows |-> EmptyDict],
           [present |-> TRUE, rows |-> "Al" :> "Alice"],
           [present |-> TRUE, rows |-> "Al" :> "Bob"],
           [present |-> TRUE, rows |-> "Bob" :> "Alice"],
           [present |-> TRUE, rows |-> ("Al" :> "Alice") @@ ("Bob" :> "Alice")],
           [present |-> TRUE, rows |-> "Al" :> "Al"] }
    ELSE { [present |-> FALSE, rows |-> EmptyDict] }

\* --------------------------------------------------------------- variables

VARIABLES
    \* the database server (committed state)
    db_state,                   \* "none", "partial" (set-up not finished), "ok"
    nvg,                        \* rows of table nvg
    nvg_type_ids,               \* rows of table nvg_type_ids
    nvg_publication_type_ids,   \* rows of table nvg_publication_type_ids
    nvg_author_ids,             \* rows of table nvg_author_ids
    nvg_file_authors,           \* rows of table nvg_file_authors
    nvg_title_aliases,          \* rows of table nvg_title_aliases
    auto_increment,             \* next AUTO_INCREMENT value of nvg, nvg_author_ids
    \* the environment
    focus,                      \* the group of columns the catalogues vary
    run,                        \* runs started so far
    faults,                     \* store errors injected so far
    csv_input,                  \* the files the current run reads
    last_run,                   \* input, mode and outcome of the previous run
    run_start,                  \* what the current run found when it started
    \* the main program
    pc,
    build_db_flag,
    file_data,
    author_aliases_dict,
    type_ids_dict,
    publication_type_ids_dict,
    snapshot_reads,             \* how many of the reads of lines 932-939 are done
    existing_filepath_ids,
    existing_title_aliases_dict,
    existing_filepath_id_author_info,
    author_ids_dict,
    authors_to_add,
    sql_log,                    \* the statements the run has had executed
    \* the language vocabulary (class Database of nvg/database.py)
    nvg_language_codes,         \* the language codes of table nvg_language_codes
    languages_column_set,       \* the members of SET column languages of table nvg
    languages_in_use,           \* the language codes that rows of table nvg hold
    language_call,              \* the last call of a method and what it raised
    \* the cross-reference file (read_cpcpower_csv_file of nvg/csv.py)
    cpcpower_csv_file,          \* the rows of the file, the header row first
    cpcpower_call,              \* what the call returned or raised
    \* the methods of class Database called one by one (nvg/database.py)
    database_call               \* the last call: its arguments and its outcome

langVars ==
    << nvg_language_codes, languages_column_set, languages_in_use, language_call >>

cpcpowerVars == << cpcpower_csv_file, cpcpower_call >>

databaseVars == << database_call >>

storeVars ==
    << db_state, nvg, nvg_type_ids, nvg_publication_type_ids, nvg_author_ids,
       nvg_file_authors, nvg_title_aliases, auto_increment >>

envVars ==
    << focus, langVars, cpcpowerVars, databaseVars, run, faults, csv_input, last_run,
       run_start >>

snapshotVars ==
    << snapshot_reads, existing_filepath_ids, existing_title_aliases_dict,
       existing_filepath_id_author_info >>

dictVars == << type_ids_dict, publication_type_ids_dict, author_ids_dict >>

vars ==
    << storeVars, envVars, snapshotVars, dictVars, pc, build_db_flag, file_data,
       author_aliases_dict, authors_to_add, sql_log >>

NoInput == [catalog |-> EmptyDict, aliases |-> [present |-> FALSE, rows |-> EmptyDict]]

NoRun ==
    [input |-> NoInput, build |-> FALSE, outcome |-> "none", found |-> "none",
     faulted |-> FALSE, built |-> << >>]

\* Before the first run: no database, no store error yet
NoStart == [db_state |-> "none", faults |-> 0]

\* An exception of the database driver: its class and its error number
Raised(class, errno) == [class |-> class, errno |-> errno]

NoError == Raised("none", 0)

\* Python's None as the value of a key, and as what a call that raised
\* did not return
None == [none |-> TRUE]

NoCall == [method |-> "none", code |-> 0, raised |-> NoError, returned |-> None]

\* No method of class Database has been called
NotCalled ==
    [method |-> "none", args |-> EmptyDict, raised |-> NoError, returned |-> None,
     connected |-> FALSE, calls |-> 0]

\* read_cpcpower_csv_file has not been called
NotRead == [raised |-> "not called", data |-> EmptyDict, warnings |-> << >>]

\* The AUTO_INCREMENT counters of nvg and nvg_author_ids carried over from
\* the tables of the database that is replaced
FreshAutoIncrement_kept == auto_increment

\* The AUTO_INCREMENT counters of tables that have just been created (lines
\* 202 and 246)
FreshAutoIncrement == [nvg |-> 1, nvg_author_ids |-> 1]

\* The rows of the six tables
StoreTables ==
    << nvg, nvg_type_ids, nvg_publication_type_ids, nvg_author_ids,
       nvg_file_authors, nvg_title_aliases >>

EmptyStore ==
    /\ nvg = {}
    /\ nvg_type_ids = {}
    /\ nvg_publication_type_ids = {}
    /\ nvg_author_ids = {}
    /\ nvg_file_authors = {}
    /\ nvg_title_aliases = {}
    /\ auto_increment = [nvg |-> 1, nvg_author_ids |-> 1]

\* No database exists on the server and no run has started
Init ==
    /\ db_state = "none"
    /\ EmptyStore
    /\ focus \in Focuses
    /\ run = 0
    /\ faults = 0
    /\ csv_input = NoInput
    /\ last_run = NoRun
    /\ run_start = NoStart
    /\ pc = "idle"
    /\ build_db_flag = FALSE
    /\ file_data = EmptyDict
    /\ author_aliases_dict = EmptyDict
    /\ type_ids_dict = EmptyDict
    /\ publication_type_ids_dict = EmptyDict
    /\ snapshot_reads = 0
    /\ existing_filepath_ids = EmptyDict
    /\ existing_title_aliases_dict = EmptyDict
    /\ existing_filepath_id_author_info = EmptyDict
    /\ author_ids_dict = EmptyDict
    /\ authors_to_add = <<>>
    /\ sql_log = <<>>
    /\ nvg_language_codes = {}
    /\ languages_column_set = {}
    /\ languages_in_use = {}
    /\ language_call = NoCall
    /\ cpcpower_csv_file = << >>
    /\ cpcpower_call = NotRead
    /\ database_call = NotCalled

\* ------------------------------------------- reading and resolving (pure)

\* read_author_aliases_csv_file: the rows of the file, or the empty dict
\* when the file is not found
read_author_aliases_csv_file(file) ==
    IF file.present THEN file.rows ELSE EmptyDict

\* The loop of lines 861-867 on one record: a TYPE that is a key of
\* type_correction_dict is replaced
CorrectType(rec) ==
    IF /\ Has(rec, "TYPE")
       /\ Len(rec["TYPE"].str) = 1
       /\ rec["TYPE"].str[1] \in DOMAIN type_correction_dict
    THEN Put(rec, "TYPE", StrVal(<<type_correction_dict[rec["TYPE"].str[1]]>>))
    ELSE rec

CorrectTypes(data) == [p \in DOMAIN data |-> CorrectType(data[p])]

\* The names create_id_dict collects for one field: every piece of the
\* field of every record, split at the delimiter and stripped
FieldNames(data, field) ==
    UNION { {StrStrip(data[p][field].str[i]) : i \in DOMAIN data[p][field].str} :
            p \in {q \in DOMAIN data : Has(data[q], field)} }

\* dict[value] where value is the whole text of a field: a text of several
\* pieces holds the delimiter and is a key of no dict of names
HasWhole(dict, v) == Len(v.str) = 1 /\ v.str[1] \in DOMAIN dict
GetWhole(dict, v) == dict[v.str[1]]

RECURSIVE Concat(_)
Concat(ss) == IF Len(ss) = 0 THEN <<>> ELSE ss[1] \o Concat(Tail(ss))

\* The first occurrence of every element of s, in order
RECURSIVE Dedup(_)
Dedup(s) ==
    IF Len(s) = 0 THEN <<>>
    ELSE LET front == Dedup(SubSeq(s, 1, Len(s) - 1))
         IN  IF s[Len(s)] \in Range(front) THEN front ELSE Append(front, s[Len(s)])

\* names.split(sep=',') with every name stripped
SplitNames(v) == [i \in DOMAIN v.str |-> StrStrip(v.str[i])]

\* The fields taken whole: only the text before the first comma
RecordAuthorNames_unsplit(rec) ==
    Concat([i \in DOMAIN author_field_list |->
              IF Has(rec, author_field_list[i])
              THEN << SplitNames(rec[author_field_list[i]])[1] >>
              ELSE <<>>])

\* The author names of one record, in the order of author_field_list
RecordAuthorNames(rec) ==
    Concat([i \in DOMAIN author_field_list |->
              IF Has(rec, author_field_list[i])
              THEN SplitNames(rec[author_field_list[i]])
              ELSE <<>>])

\* The rows of the catalogue in the order the program visits them
Filepaths(data) == SortedPlain(DOMAIN data)

\* The keys of the dict of create_id_dict in the order of their insertion
\* (lines 377-386): the names of the field, record after record in the order
\* of the rows of the catalogue (taken to list the filepaths in ascending
\* order), each name at the place of its first occurrence
FieldNamesInOrder(data, field) ==
    LET paths == Filepaths(data)
    IN  Dedup(Concat([i \in DOMAIN paths |->
                        IF Has(data[paths[i]], field)
                        THEN SplitNames(data[paths[i]][field])
                        ELSE <<>>]))

\* The ids 1..N in the order of a sequence of names
Numbered(names) == [n \in Range(names) |-> CHOOSE i \in DOMAIN names : names[i] = n]

\* A create_id_dict that sorts with sorted(dict), without the key
create_id_dict_case_sensitive(data, field) ==
    LET names == FieldNamesInOrder(data, field)
    IN  Numbered(SortedBy(names, [n \in Range(names) |-> PlainKey(n)]))

\* create_id_dict([field]): ids 1..N in the order of sorted(dict,
\* key=str.lower), a stable sort of the keys in the order of their insertion
create_id_dict(data, field) ==
    LET names == FieldNamesInOrder(data, field)
    IN  Numbered(SortedBy(names, [n \in Range(names) |-> LowerKey(n)]))

\* Every name of the author fields and of the alias file, the stored ones
\* included
get_authors_to_add_stored_too(data, ids, aliases) ==
    LET paths == Filepaths(data)
        in_files == Concat([i \in DOMAIN paths |-> RecordAuthorNames(data[paths[i]])])
        keys == SortedPlain(DOMAIN aliases)
        in_aliases == Concat([i \in DOMAIN keys |-> <<keys[i], aliases[keys[i]]>>])
    IN  Dedup(in_files \o in_aliases)

\* _get_authors_to_add: the names of the author fields and of the alias
\* file that are not in author_ids_dict, each once
get_authors_to_add(data, ids, aliases) ==
    LET paths == Filepaths(data)
        in_files == Concat([i \in DOMAIN paths |-> RecordAuthorNames(data[paths[i]])])
        keys == SortedPlain(DOMAIN aliases)
        in_aliases == Concat([i \in DOMAIN keys |-> <<keys[i], aliases[keys[i]]>>])
        found == Dedup(in_files \o in_aliases)
    IN  Filter(found, Range(found) \ DOMAIN ids)

\* ------------------------------------------------------- reading the store

\* build_dict_from_table(table, key_column, value_column)
build_dict_from_table(rows, key_column, value_column) ==
    [k \in {r[key_column] : r \in rows} |->
        (CHOOSE r \in rows : r[key_column] = k)[value_column]]

get_existing_filepath_ids == build_dict_from_table(nvg, "filepath", "filepath_id")

get_existing_type_ids == build_dict_from_table(nvg_type_ids, "type_desc", "type_id")

get_existing_publication_type_ids ==
    build_dict_from_table(nvg_publication_type_ids, "type_desc", "type_id")

\* get_existing_title_aliases: filepath_id -> the titles, ORDER BY title
get_existing_title_aliases ==
    [id \in {r.filepath_id : r \in nvg_title_aliases} |->
        SortedLower({r.title : r \in {q \in nvg_title_aliases : q.filepath_id = id}})]

\* The author ids of one (filepath_id, author_type), ORDER BY author_index
AuthorsInOrder(rows) ==
    LET idx == SortedBy(SetToSeq({r.author_index : r \in rows}),
                        [i \in {r.author_index : r \in rows} |-> i])
    IN  [n \in DOMAIN idx |-> (CHOOSE r \in rows : r.author_index = idx[n]).author_id]

\* get_existing_filepath_id_author_info: filepath_id -> author_type -> ids
get_existing_filepath_id_author_info ==
    [id \in {r.filepath_id : r \in nvg_file_authors} |->
        [t \in {r.author_type : r \in {q \in nvg_file_authors : q.filepath_id = id}} |->
            AuthorsInOrder({r \in nvg_file_authors :
                              r.filepath_id = id /\ r.author_type = t})]]

\* get_existing_author_ids: author_name -> {'ID', 'Alias ID'}; 'Alias ID'
\* only when the column is set
get_existing_author_ids ==
    [n \in {r["author_name"] : r \in nvg_author_ids} |->
        LET r == CHOOSE q \in nvg_author_ids : q["author_name"] = n
        IN  IF Has(r, "alias_of_author_id")
            THEN ("ID" :> r["author_id"]) @@ ("Alias ID" :> r["alias_of_author_id"])
            ELSE "ID" :> r["author_id"]]

\* ------------------------------------------------------------- statements

Stmt(op, table, ids) == [op |-> op, table |-> table, ids |-> ids]

\* The foreign keys fk_filepath_id and fk_fa_filepath_id: no row of
\* nvg_title_aliases or nvg_file_authors may lose its nvg row
FkFilepathDeleteOk(ids, file_authors, title_aliases) ==
    /\ \A r \in file_authors : r.filepath_id \notin ids
    /\ \A r \in title_aliases : r.filepath_id \notin ids

\* ------------------------------------------------------------ the program

\* quit() after a caught store error, or the end of the process after an
\* exception that nothing catches: the open transaction is not committed
Abort == pc' = "aborted"

CanFail == faults < MaxFaults

\* The program starts: it reads the CSV files (lines 830-849), corrects the
\* types (861-867), numbers the types of the catalogue (874-875), connects
\* and selects the database, which it decides to build when the database
\* does not exist (904-914)
StartRun ==
    /\ pc \in {"idle", "done", "aborted"}
    /\ run < MaxRuns
    /\ \E catalog \in Catalogs(focus), aliases \in AliasFiles(focus),
          build_option \in BOOLEAN :
            LET data == CorrectTypes(catalog)
                build == build_option \/ db_state = "none"
            IN  /\ csv_input' = [catalog |-> catalog, aliases |-> aliases]
                /\ file_data' = data
                /\ author_aliases_dict' = read_author_aliases_csv_file(aliases)
                /\ type_ids_dict' = create_id_dict(data, "TYPE")
                /\ publication_type_ids_dict' = create_id_dict(data, "PUBLICATION")
                /\ build_db_flag' = build
                /\ pc' = IF build THEN "setup_db" ELSE "snapshot"
    /\ run' = run + 1
    /\ last_run' = [input |-> csv_input, build |-> build_db_flag, outcome |-> pc,
                    found |-> run_start.db_state,
                    faulted |-> faults > run_start.faults,
                    built |-> IF pc = "done" /\ build_db_flag
                              THEN StoreTables ELSE << >>]
    /\ run_start' = [db_state |-> db_state, faults |-> faults]
    /\ snapshot_reads' = 0
    /\ existing_filepath_ids' = EmptyDict
    /\ existing_title_aliases_dict' = EmptyDict
    /\ existing_filepath_id_author_info' = EmptyDict
    /\ author_ids_dict' = EmptyDict
    /\ authors_to_add' = <<>>
    /\ sql_log' = <<>>
    /\ UNCHANGED << storeVars, focus, langVars, cpcpowerVars, databaseVars, faults >>

localVars ==
    << build_db_flag, file_data, author_aliases_dict, authors_to_add, sql_log,
       snapshotVars, dictVars >>

\* _setup_db: drop the database, create it and its tables
SetupDbOk ==
    /\ pc = "setup_db"
    /\ db_state' = "ok"
    /\ nvg' = {}
    /\ nvg_type_ids' = {}
    /\ nvg_publication_type_ids' = {}
    /\ nvg_author_ids' = {}
    /\ nvg_file_authors' = {}
    /\ nvg_title_aliases' = {}
    /\ auto_increment' = FreshAutoIncrement
    /\ pc' = "get_authors"
    /\ UNCHANGED << envVars, localVars >>

\* _setup_db fails: before the database is dropped, or after (no database
\* left), or while the tables, triggers, routines and views are created
SetupDbFails ==
    /\ pc = "setup_db"
    /\ CanFail
    /\ faults' = faults + 1
    /\ \/ UNCHANGED storeVars
       \/ /\ db_state' \in {"none", "partial"}
          /\ nvg' = {}
          /\ nvg_type_ids' = {}
          /\ nvg_publication_type_ids' = {}
          /\ nvg_author_ids' = {}
          /\ nvg_file_authors' = {}
          /\ nvg_title_aliases' = {}
          /\ auto_increment' = FreshAutoIncrement
    /\ Abort
    /\ UNCHANGED << focus, langVars, cpcpowerVars, databaseVars,
                    run, csv_input, last_run, run_start, localVars >>

\* Lines 930-939: the five reads of the current state of the database
ReadSnapshotOk ==
    /\ pc = "snapshot"
    /\ db_state = "ok"
    /\ snapshot_reads' = 5
    /\ existing_filepath_ids' = get_existing_filepath_ids
    /\ publication_type_ids_dict' = get_existing_publication_type_ids
    /\ type_ids_dict' = get_existing_type_ids
    /\ existing_title_aliases_dict' = get_existing_title_aliases
    /\ existing_filepath_id_author_info' = get_existing_filepath_id_author_info
    /\ pc' = "delete"
    /\ UNCHANGED << storeVars, envVars, build_db_flag, file_data,
                    author_aliases_dict, authors_to_add, sql_log, author_ids_dict >>

\* One of the reads raises sql.OperationalError: lines 940-944 print the
\* error and the program goes on with the reads done so far.  Without
\* existing_filepath_ids, delete_filepaths_from_db ends in a NameError
ReadSnapshotFails ==
    /\ pc = "snapshot"
    /\ db_state = "ok"
    /\ CanFail
    /\ faults' = faults + 1
    /\ \E done \in 0..4 :
        /\ snapshot_reads' = done
        /\ existing_filepath_ids' =
              IF done >= 1 THEN get_existing_filepath_ids ELSE EmptyDict
        /\ publication_type_ids_dict' =
              IF done >= 2 THEN get_existing_publication_type_ids
              ELSE publication_type_ids_dict
        /\ type_ids_dict' = IF done >= 3 THEN get_existing_type_ids ELSE type_ids_dict
        /\ existing_title_aliases_dict' =
              IF done >= 4 THEN get_existing_title_aliases ELSE EmptyDict
        /\ existing_filepath_id_author_info' = EmptyDict
        /\ pc' = IF done >= 1 THEN "delete" ELSE "aborted"
    /\ UNCHANGED << storeVars, focus, langVars, cpcpowerVars, databaseVars,
                    run, csv_input, last_run,
                    run_start, build_db_flag,
                    file_data, author_aliases_dict, authors_to_add, sql_log,
                    author_ids_dict >>

\* The database exists but its tables do not (a set-up that failed): the
\* first read raises an error that line 940 does not catch
ReadSnapshotNoTables ==
    /\ pc = "snapshot"
    /\ db_state = "partial"
    /\ Abort
    /\ UNCHANGED << storeVars, envVars, localVars >>

\* A delete_filepaths_from_db that finds nothing to delete
filepaths_to_delete_none == {}

\* A delete_filepaths_from_db that deletes every stored filepath
filepaths_to_delete_all == DOMAIN existing_filepath_ids

\* delete_filepaths_from_db: the stored filepaths that are not in the
\* catalogue (lines 658-662)
filepaths_to_delete == (DOMAIN existing_filepath_ids) \ (DOMAIN file_data)

filepath_ids_to_delete == {existing_filepath_ids[p] : p \in filepaths_to_delete}

\* A loop that deletes the rows of nvg before the rows that reference them
delete_table_order_nvg_first == << "nvg", "nvg_file_authors", "nvg_title_aliases" >>

\* The tables of the loop of line 684, in its order
delete_table_order == << "nvg_file_authors", "nvg_title_aliases", "nvg" >>

DeletePc == << "delete", "delete_2", "delete_3" >>

\* Lines 950-954, 958-973: the next step once the deletions are done
AfterDelete == "get_authors"

\* Nothing to delete: delete_filepaths_from_db returns 0 (line 665)
DeleteNothing ==
    /\ pc = "delete"
    /\ filepaths_to_delete = {}
    /\ pc' = AfterDelete
    /\ UNCHANGED << storeVars, envVars, localVars >>

\* One pass of the loop of lines 684-688: DELETE FROM table WHERE
\* filepath_id IN (...), and the commit that follows it
DeleteFromTable ==
    \E k \in 1..3 :
        LET table == delete_table_order[k]
            ids == filepath_ids_to_delete
            file_authors == IF table = "nvg_file_authors"
                            THEN {r \in nvg_file_authors : r.filepath_id \notin ids}
                            ELSE nvg_file_authors
            title_aliases == IF table = "nvg_title_aliases"
                             THEN {r \in nvg_title_aliases : r.filepath_id \notin ids}
                             ELSE nvg_title_aliases
        IN  /\ pc = DeletePc[k]
            /\ filepaths_to_delete # {}
            /\ IF table = "nvg" /\ ~FkFilepathDeleteOk(ids, file_authors, title_aliases)
               THEN /\ Abort
                    /\ UNCHANGED << storeVars, sql_log >>
               ELSE /\ nvg_file_authors' = file_authors
                    /\ nvg_title_aliases' = title_aliases
                    /\ nvg' = IF table = "nvg"
                              THEN {r \in nvg : r["filepath_id"] \notin ids}
                              ELSE nvg
                    /\ sql_log' = Append(sql_log, Stmt("DELETE", table, ids))
                    /\ pc' = IF k < 3 THEN DeletePc[k + 1] ELSE AfterDelete
                    /\ UNCHANGED << db_state, nvg_type_ids, nvg_publication_type_ids,
                                    nvg_author_ids, auto_increment >>
            /\ UNCHANGED << envVars, build_db_flag, file_data, author_aliases_dict,
                            authors_to_add, snapshotVars, dictVars >>

\* A DELETE or its commit raises sql.OperationalError (lines 698-704): the
\* passes committed before it stay committed
DeleteFails ==
    /\ pc \in Range(DeletePc)
    /\ filepaths_to_delete # {}
    /\ CanFail
    /\ faults' = faults + 1
    /\ Abort
    /\ UNCHANGED << storeVars, focus, langVars, cpcpowerVars, databaseVars,
                    run, csv_input, last_run,
                    run_start, localVars >>

\* Lines 952-954: the records of the filepaths that are stored get their ID
AssignExistingIds(data, ids) ==
    [p \in DOMAIN data |->
        IF p \in DOMAIN ids THEN Put(data[p], "ID", ids[p]) ELSE data[p]]

\* A program without the guard of line 1046
AfterAuthors_unguarded(aliases) == "update_aliases"

AfterAuthors(aliases) == IF DOMAIN aliases # {} THEN "update_aliases" ELSE "convert"

AfterLookup(to_add, aliases) ==
    IF Len(to_add) > 0 THEN "insert_authors" ELSE AfterAuthors(aliases)

\* Lines 950-973: the ids of the stored filepaths, the stored authors and
\* the authors to add
GetAuthors ==
    /\ pc = "get_authors"
    /\ LET data == IF build_db_flag THEN file_data
                   ELSE AssignExistingIds(file_data, existing_filepath_ids)
           ids == IF build_db_flag THEN EmptyDict ELSE get_existing_author_ids
           to_add == get_authors_to_add(data, ids, author_aliases_dict)
       IN  /\ file_data' = data
           /\ author_ids_dict' = ids
           /\ authors_to_add' = to_add
           /\ pc' = IF build_db_flag THEN "insert_type_ids"
                    ELSE AfterLookup(to_add, author_aliases_dict)
    /\ UNCHANGED << storeVars, envVars, build_db_flag, author_aliases_dict, sql_log,
                    snapshotVars, type_ids_dict, publication_type_ids_dict >>

\* get_existing_author_ids raises sql.OperationalError (lines 963-970)
GetAuthorsFails ==
    /\ pc = "get_authors"
    /\ ~build_db_flag
    /\ CanFail
    /\ faults' = faults + 1
    /\ Abort
    /\ UNCHANGED << storeVars, focus, langVars, cpcpowerVars, databaseVars,
                    run, csv_input, last_run,
                    run_start, localVars >>

\* The rows insert_type_ids and insert_publication_type_ids insert
TypeRows(dict) == {[type_id |-> dict[n], type_desc |-> n] : n \in DOMAIN dict}

\* insert_type_ids(type_ids_dict), build mode only (lines 985-990)
InsertTypeIds ==
    /\ pc = "insert_type_ids"
    /\ nvg_type_ids' = nvg_type_ids \cup TypeRows(type_ids_dict)
    /\ sql_log' = sql_log \o
          [i \in 1..Cardinality(DOMAIN type_ids_dict) |->
              Stmt("INSERT", "nvg_type_ids", {i})]
    /\ pc' = "insert_publication_type_ids"
    /\ UNCHANGED << db_state, nvg, nvg_publication_type_ids, nvg_author_ids,
                    nvg_file_authors, nvg_title_aliases, auto_increment, envVars,
                    build_db_flag, file_data, author_aliases_dict, authors_to_add,
                    snapshotVars, dictVars >>

\* insert_publication_type_ids(publication_type_ids_dict) (lines 992-995)
InsertPublicationTypeIds ==
    /\ pc = "insert_publication_type_ids"
    /\ nvg_publication_type_ids' =
          nvg_publication_type_ids \cup TypeRows(publication_type_ids_dict)
    /\ sql_log' = sql_log \o
          [i \in 1..Cardinality(DOMAIN publication_type_ids_dict) |->
              Stmt("INSERT", "nvg_publication_type_ids", {i})]
    /\ pc' = AfterLookup(authors_to_add, author_aliases_dict)
    /\ UNCHANGED << db_state, nvg, nvg_type_ids, nvg_author_ids,
                    nvg_file_authors, nvg_title_aliases, auto_increment, envVars,
                    build_db_flag, file_data, author_aliases_dict, authors_to_add,
                    snapshotVars, dictVars >>

\* One of the two raises sql.OperationalError (lines 1002-1008)
InsertLookupFails ==
    /\ pc \in {"insert_type_ids", "insert_publication_type_ids"}
    /\ CanFail
    /\ faults' = faults + 1
    /\ Abort
    /\ UNCHANGED << storeVars, focus, langVars, cpcpowerVars, databaseVars,
                    run, csv_input, last_run,
                    run_start, localVars >>

\* insert_authors: the names in the order of sorted(..., key=str.lower),
\* each with the id the table's AUTO_INCREMENT gives it
authors_added(to_add, first_id) ==
    LET names == SortedBy(to_add, [n \in Range(to_add) |-> LowerKey(n)])
    IN  [n \in Range(names) |->
            "ID" :> (first_id + (CHOOSE i \in DOMAIN names : names[i] = n) - 1)]

AuthorRow(id, name) == ("author_id" :> id) @@ ("author_name" :> name)

\* Lines 1012-1028: insert the new authors and note their ids
InsertAuthors ==
    /\ pc = "insert_authors"
    /\ LET added == authors_added(authors_to_add, auto_increment.nvg_author_ids)
       IN  /\ nvg_author_ids' = nvg_author_ids \cup
                  {AuthorRow(added[n]["ID"], StrStrip(n)) : n \in DOMAIN added}
           /\ auto_increment' =
                  [auto_increment EXCEPT !.nvg_author_ids = @ + Len(authors_to_add)]
           /\ author_ids_dict' = Update(author_ids_dict, added)
           /\ sql_log' = sql_log \o
                  [i \in DOMAIN authors_to_add |->
                      Stmt("INSERT", "nvg_author_ids",
                           {auto_increment.nvg_author_ids + i - 1})]
    /\ pc' = AfterAuthors(author_aliases_dict)
    /\ UNCHANGED << db_state, nvg, nvg_type_ids, nvg_publication_type_ids,
                    nvg_file_authors, nvg_title_aliases, envVars, build_db_flag,
                    file_data, author_aliases_dict, authors_to_add, snapshotVars,
                    type_ids_dict, publication_type_ids_dict >>

\* insert_authors raises sql.OperationalError (lines 1017-1024)
InsertAuthorsFails ==
    /\ pc = "insert_authors"
    /\ CanFail
    /\ faults' = faults + 1
    /\ Abort
    /\ UNCHANGED << storeVars, focus, langVars, cpcpowerVars, databaseVars,
                    run, csv_input, last_run,
                    run_start, localVars >>

\* ------------------------------------------------------- author aliases

\* A comparison that takes every link of the mapping for a new one
NeedsAliasUpdate_always(entry, new_alias_of_author_id) == TRUE

\* Line 1070-1071: the stored link is missing or is not the resolved one
NeedsAliasUpdate(entry, new_alias_of_author_id) ==
    \/ ~Has(entry, "Alias ID")
    \/ new_alias_of_author_id # entry["Alias ID"]

\* Lines 1058-1061: the authors whose link is removed
AliasesRemoved(ids, aliases) ==
    {n \in DOMAIN ids : n \notin DOMAIN aliases /\ Has(ids[n], "Alias ID")}

\* Lines 1067-1073: the authors whose link is set or changed
AliasesSet(ids, aliases) ==
    {n \in (DOMAIN ids) \cap (DOMAIN aliases) :
        NeedsAliasUpdate(ids[n], ids[aliases[n]]["ID"])}

\* author_ids_dict after the loop of lines 1047-1073
AliasesApplied(ids, aliases) ==
    [n \in DOMAIN ids |->
        IF n \in AliasesRemoved(ids, aliases) THEN Del(ids[n], "Alias ID")
        ELSE IF n \in AliasesSet(ids, aliases)
             THEN Put(ids[n], "Alias ID", ids[aliases[n]]["ID"])
             ELSE ids[n]]

\* An UPDATE that matches no row
AliasUpdatedRow_unchanged(row, ids, to_update) == row

\* An UPDATE that sets the column author_id in place of alias_of_author_id
AliasUpdatedRow_wrong_column(row, ids, to_update) ==
    LET names == {n \in to_update : ids[n]["ID"] = row["author_id"]}
    IN  IF names = {} THEN row
        ELSE LET n == CHOOSE m \in names : TRUE
             IN  IF Has(ids[n], "Alias ID")
                 THEN Put(row, "author_id", ids[n]["Alias ID"])
                 ELSE row

\* The UPDATE of lines 1083-1114 on one row of nvg_author_ids
AliasUpdatedRow(row, ids, to_update) ==
    LET names == {n \in to_update : ids[n]["ID"] = row["author_id"]}
    IN  IF names = {} THEN row
        ELSE LET n == CHOOSE m \in names : TRUE
             IN  IF Has(ids[n], "Alias ID")
                 THEN Put(row, "alias_of_author_id", ids[n]["Alias ID"])
                 ELSE Del(row, "alias_of_author_id")

\* Lines 1044-1126, entered only when author_aliases_dict is not empty: find
\* the links to change and update them in one transaction
UpdateAuthorAliases ==
    /\ pc = "update_aliases"
    /\ LET to_update == AliasesRemoved(author_ids_dict, author_aliases_dict)
                          \cup AliasesSet(author_ids_dict, author_aliases_dict)
           ids == AliasesApplied(author_ids_dict, author_aliases_dict)
           order == SortedLower(to_update)
       IN  /\ author_ids_dict' = ids
           /\ nvg_author_ids' =
                  {AliasUpdatedRow(r, ids, to_update) : r \in nvg_author_ids}
           /\ sql_log' = sql_log \o
                  [i \in DOMAIN order |->
                      Stmt("UPDATE", "nvg_author_ids", {ids[order[i]]["ID"]})]
    /\ pc' = "convert"
    /\ UNCHANGED << db_state, nvg, nvg_type_ids, nvg_publication_type_ids,
                    nvg_file_authors, nvg_title_aliases, auto_increment, envVars,
                    build_db_flag, file_data, author_aliases_dict, authors_to_add,
                    snapshotVars, type_ids_dict, publication_type_ids_dict >>

\* An UPDATE or the commit raises sql.OperationalError (lines 1115-1123,
\* 1132-1139): nothing of the transaction is committed
UpdateAuthorAliasesFails ==
    /\ pc = "update_aliases"
    /\ CanFail
    /\ faults' = faults + 1
    /\ Abort
    /\ UNCHANGED << storeVars, focus, langVars, cpcpowerVars, databaseVars,
                    run, csv_input, last_run,
                    run_start, localVars >>

\* ------------------------------------------------------------ normaliser

\* Lines 1152-1161: ALSO KNOWN AS becomes the list of its titles, sorted
ConvertAlsoKnownAs(rec) ==
    IF Has(rec, "ALSO KNOWN AS")
    THEN LET titles == SplitNames(rec["ALSO KNOWN AS"])
         IN  Put(rec, "ALSO KNOWN AS",
                 ListVal(SortedBy(titles, [t \in Range(titles) |-> LowerKey(t)])))
    ELSE rec

\* Lines 1165-1174: a TYPE or PUBLICATION that is a key of its dict becomes
\* the id; any other stays as it is
ConvertTypeField(rec, field, dict) ==
    IF Has(rec, field) /\ HasWhole(dict, rec[field])
    THEN Put(rec, field, IntVal(GetWhole(dict, rec[field])))
    ELSE rec

\* Lines 1203-1208 for TYPE (column 7): a '-' that is still a string is removed
DropNotApplicable(rec) ==
    IF Has(rec, "TYPE") /\ IsStr(rec["TYPE"]) /\ rec["TYPE"].str = <<"-">>
    THEN Del(rec, "TYPE")
    ELSE rec

\* Lines 1242-1247 for COMMENTS: '?' is removed
DropUnknown(rec) ==
    IF Has(rec, "COMMENTS") /\ rec["COMMENTS"] = "?" THEN Del(rec, "COMMENTS") ELSE rec

\* re.fullmatch('([0-9]{2})/([0-9]{2})/([0-9]{4})', upload_date), the
\* pattern of lines 1220, 1344 and 1445
MatchesDate(chars) ==
    /\ Len(chars) = 10
    /\ chars[3] = "/"
    /\ chars[6] = "/"
    /\ \A i \in {1, 2, 4, 5, 7, 8, 9, 10} : chars[i] \in Range(Digits)

\* The date of a text that matches: groups 1 to 3 of the pattern
\* (STR_TO_DATE(%s, '%d/%m/%Y') reads them the same way)
DateOf(chars) ==
    [day   |-> int(SubSeq(chars, 1, 2)),
     month |-> int(SubSeq(chars, 4, 5)),
     year  |-> int(SubSeq(chars, 7, 10))]

\* Lines 1220-1226: the text is dd/mm/yyyy and datetime.date accepts it
UploadDateValid(chars) ==
    /\ MatchesDate(chars)
    /\ IsCalendarDate(DateOf(chars).year, DateOf(chars).month, DateOf(chars).day)

\* Lines 1232-1237: the handler of ValueError deletes the field and then
\* formats its message with file_data[filepath]['ID']; for a record that has
\* no ID this raises KeyError inside the handler, which nothing catches
UploadDateRaises(rec) ==
    /\ Has(rec, "Upload Date")
    /\ rec["Upload Date"].chars # <<"?">>
    /\ ~UploadDateValid(rec["Upload Date"].chars)
    /\ ~Has(rec, "ID")

\* Lines 1211-1237: a '?' and a date that is not valid are deleted
CheckUploadDate(rec) ==
    IF Has(rec, "Upload Date") /\ ~UploadDateValid(rec["Upload Date"].chars)
    THEN Del(rec, "Upload Date")
    ELSE rec

\* re.fullmatch('^([0-9]+)K', text) of line 1251
MatchesMemory(chars) ==
    /\ Len(chars) >= 2
    /\ chars[Len(chars)] = "K"
    /\ IsDigits(SubSeq(chars, 1, Len(chars) - 1))

\* Lines 1257-1261: the text matches and its number is a permitted value
MemoryRequiredValid(chars) ==
    /\ MatchesMemory(chars)
    /\ int(SubSeq(chars, 1, Len(chars) - 1)) \in memory_required_valid_values

\* Lines 1250-1269: a valid value becomes its integer; for any other the
\* message is formatted first, with file_data[filepath]['ID'], and the field
\* is deleted after it: for a record that has no ID the KeyError of the
\* message is caught by line 1268 and the text stays
ConvertMemoryRequired(rec) ==
    IF ~Has(rec, "MEMORY REQUIRED") THEN rec
    ELSE LET chars == rec["MEMORY REQUIRED"].chars
         IN  IF MemoryRequiredValid(chars)
             THEN Put(rec, "MEMORY REQUIRED",
                      IntVal(int(SubSeq(chars, 1, Len(chars) - 1))))
             ELSE IF Has(rec, "ID") THEN Del(rec, "MEMORY REQUIRED")
             ELSE rec

\* Lines 1273-1289: the names of every author field become their ids
AuthorFieldsOf(rec) == {f \in Range(author_field_list) : Has(rec, f)}

AuthorsMapped(rec, ids) ==
    \A f \in AuthorFieldsOf(rec) : Range(SplitNames(rec[f])) \subseteq DOMAIN ids

ConvertAuthors(rec, ids) ==
    [k \in DOMAIN rec |->
        IF k \in AuthorFieldsOf(rec)
        THEN ListVal([i \in DOMAIN rec[k].str |-> ids[StrStrip(rec[k].str[i])]["ID"]])
        ELSE rec[k]]

ConvertRecord(rec, types, publications, ids) ==
    ConvertAuthors(
        ConvertMemoryRequired(
            DropUnknown(
                CheckUploadDate(
                    DropNotApplicable(
                        ConvertTypeField(
                            ConvertTypeField(ConvertAlsoKnownAs(rec), "TYPE", types),
                            "PUBLICATION", publications))))),
        ids)

\* Lines 1148-1289: convert every record; a name without an id ends the
\* program (line 1287), and so does the KeyError of line 1237
ConvertFileData ==
    /\ pc = "convert"
    /\ IF /\ \A p \in DOMAIN file_data : AuthorsMapped(file_data[p], author_ids_dict)
          /\ \A p \in DOMAIN file_data : ~UploadDateRaises(file_data[p])
       THEN /\ file_data' =
                  [p \in DOMAIN file_data |->
                      ConvertRecord(file_data[p], type_ids_dict,
                                    publication_type_ids_dict, author_ids_dict)]
            /\ pc' = "update_files"
       ELSE /\ Abort
            /\ UNCHANGED file_data
    /\ UNCHANGED << storeVars, envVars, build_db_flag, author_aliases_dict,
                    authors_to_add, sql_log, snapshotVars, dictVars >>

\* ------------------------------------------------------------- table nvg

\* A query parameter file_data[filepath].get(key, None): None is NULL
Col(column, rec, key) == IF Has(rec, key) THEN column :> rec[key] ELSE EmptyDict

\* The parameter of a TINYINT column (type_id, publication_type_id)
IdCol(column, rec, key) == IF Has(rec, key) THEN column :> rec[key].int ELSE EmptyDict

\* file_data[filepath].get('COMMENTS', '') (lines 1374 and 1470)
CommentsParam(rec) == Get(rec, "COMMENTS", "")

\* Lines 1342-1350 and 1443-1451: an upload date that matches dd/mm/yyyy is
\* stored through STR_TO_DATE; any other, and none, is NULL
UploadDateCol(rec) ==
    IF Has(rec, "Upload Date") /\ MatchesDate(rec["Upload Date"].chars)
    THEN "upload_date" :> DateOf(rec["Upload Date"].chars)
    ELSE EmptyDict

\* file_data[filepath].get('MEMORY REQUIRED', None) for the column
\* memory_required SMALLINT UNSIGNED (line 223): the server converts a text
\* of digits to its number and refuses any other text (IntegerColumnsOk)
MemoryRequiredCol(rec) ==
    IF ~Has(rec, "MEMORY REQUIRED") THEN EmptyDict
    ELSE IF IsInt(rec["MEMORY REQUIRED"])
    THEN "memory_required" :> rec["MEMORY REQUIRED"].int
    ELSE IF IsDigits(rec["MEMORY REQUIRED"].chars)
    THEN "memory_required" :> int(rec["MEMORY REQUIRED"].chars)
    ELSE EmptyDict

\* The row that the UPDATE of lines 1361-1384 and the INSERT of lines
\* 1456-1479 write for one record
RowOf(path, id, rec) ==
    ("filepath_id" :> id) @@ ("filepath" :> path) @@ ("file_size" :> rec["Size"])
        @@ Col("title", rec, "TITLE")
        @@ IdCol("type_id", rec, "TYPE")
        @@ ("comments" :> CommentsParam(rec))
        @@ IdCol("publication_type_id", rec, "PUBLICATION")
        @@ UploadDateCol(rec)
        @@ MemoryRequiredCol(rec)

\* An UPDATE that sets only the columns the record has
UpdatedRow_partial(old, path, rec) == RowOf(path, old["filepath_id"], rec) @@ old

\* UPDATE nvg SET every column WHERE filepath_id = id
UpdatedRow(old, path, rec) == RowOf(path, old["filepath_id"], rec)

\* A TINYINT column takes an integer: the text of a type that has no id is
\* refused by the server
IntegerColumnsOk(rec) ==
    /\ \A k \in {"TYPE", "PUBLICATION"} : Has(rec, k) => IsInt(rec[k])
    /\ Has(rec, "MEMORY REQUIRED") =>
          \/ IsInt(rec["MEMORY REQUIRED"])
          \/ IsDigits(rec["MEMORY REQUIRED"].chars)

\* A table nvg without its two foreign keys
FkTypeOk_unchecked(rec, types, publications) == TRUE

\* The foreign keys fk_type_id and fk_publication_type_id (lines 228-229)
FkTypeOk(rec, types, publications) ==
    /\ Has(rec, "TYPE") => rec["TYPE"].int \in {r.type_id : r \in types}
    /\ Has(rec, "PUBLICATION") =>
          rec["PUBLICATION"].int \in {r.type_id : r \in publications}

RowAccepted(rec) ==
    /\ IntegerColumnsOk(rec)
    /\ FkTypeOk(rec, nvg_type_ids, nvg_publication_type_ids)

\* The records that have an ID (stored filepaths) and those that have none
PathsWithId(data) == {p \in DOMAIN data : Has(data[p], "ID")}
PathsWithoutId(data) == {p \in DOMAIN data : ~Has(data[p], "ID")}

\* Lines 1306-1386: one UPDATE for every record that has an ID, in one
\* transaction; a statement the server refuses ends the program
UpdateFilepaths ==
    /\ pc = "update_files"
    /\ LET paths == SortedPlain(PathsWithId(file_data))
       IN  IF \A p \in Range(paths) : RowAccepted(file_data[p])
           THEN /\ nvg' =
                    {IF \E p \in Range(paths) : file_data[p]["ID"] = r["filepath_id"]
                     THEN LET p == CHOOSE q \in Range(paths) :
                                      file_data[q]["ID"] = r["filepath_id"]
                          IN  UpdatedRow(r, p, file_data[p])
                     ELSE r : r \in nvg}
                /\ sql_log' = sql_log \o
                       [i \in DOMAIN paths |->
                           Stmt("UPDATE", "nvg", {file_data[paths[i]]["ID"]})]
                /\ pc' = "insert_files"
           ELSE /\ Abort
                /\ UNCHANGED << nvg, sql_log >>
    /\ UNCHANGED << db_state, nvg_type_ids, nvg_publication_type_ids, nvg_author_ids,
                    nvg_file_authors, nvg_title_aliases, auto_increment, envVars,
                    build_db_flag, file_data, author_aliases_dict, authors_to_add,
                    snapshotVars, dictVars >>

\* An UPDATE or the commit raises a store error (lines 1391-1397)
UpdateFilepathsFails ==
    /\ pc = "update_files"
    /\ CanFail
    /\ faults' = faults + 1
    /\ Abort
    /\ UNCHANGED << storeVars, focus, langVars, cpcpowerVars, databaseVars,
                    run, csv_input, last_run,
                    run_start, localVars >>

\* A counter that restarts after the highest id that is left in the table
NewFilepathIds_after_max(paths, first_id) ==
    LET max == CHOOSE m \in {0} \cup {r["filepath_id"] : r \in nvg} :
                  \A r \in nvg : r["filepath_id"] <= m
    IN  [p \in Range(paths) |-> max + (CHOOSE i \in DOMAIN paths : paths[i] = p)]

\* The ids LAST_INSERT_ID() returns for the new filepaths (lines 1481-1485)
NewFilepathIds(paths, first_id) ==
    [p \in Range(paths) |-> first_id + (CHOOSE i \in DOMAIN paths : paths[i] = p) - 1]

\* Lines 1408-1489: one INSERT for every record that has no ID, in the order
\* of sorted(file_data), in one transaction
InsertFilepaths ==
    /\ pc = "insert_files"
    /\ LET paths == SortedPlain(PathsWithoutId(file_data))
           new_ids == NewFilepathIds(paths, auto_increment.nvg)
       IN  IF /\ \A p \in Range(paths) : RowAccepted(file_data[p])
              /\ \A p \in Range(paths) : \A r \in nvg : r["filepath"] # p
           THEN /\ nvg' = nvg \cup {RowOf(p, new_ids[p], file_data[p]) : p \in Range(paths)}
                /\ auto_increment' = [auto_increment EXCEPT !.nvg = @ + Len(paths)]
                /\ file_data' =
                       [p \in DOMAIN file_data |->
                           IF p \in Range(paths)
                           THEN Put(file_data[p], "ID", new_ids[p])
                           ELSE file_data[p]]
                /\ sql_log' = sql_log \o
                       [i \in DOMAIN paths |-> Stmt("INSERT", "nvg", {new_ids[paths[i]]})]
                /\ pc' = "file_authors"
           ELSE /\ Abort
                /\ UNCHANGED << nvg, auto_increment, file_data, sql_log >>
    /\ UNCHANGED << db_state, nvg_type_ids, nvg_publication_type_ids, nvg_author_ids,
                    nvg_file_authors, nvg_title_aliases, envVars, build_db_flag,
                    author_aliases_dict, authors_to_add, snapshotVars, dictVars >>

\* An INSERT or the commit raises a store error (lines 1494-1500)
InsertFilepathsFails ==
    /\ pc = "insert_files"
    /\ CanFail
    /\ faults' = faults + 1
    /\ Abort
    /\ UNCHANGED << storeVars, focus, langVars, cpcpowerVars, databaseVars,
                    run, csv_input, last_run,
                    run_start, localVars >>

\* ------------------------------------------------ table nvg_file_authors

FileAuthorRow(filepath_id, author_id, author_type, author_index) ==
    [filepath_id |-> filepath_id, author_id |-> author_id,
     author_type |-> author_type, author_index |-> author_index]

\* The positions counted from 1 instead of 0
FileAuthorInserts_from_one(filepath_id, field, ids) ==
    [i \in DOMAIN ids |->
        [op |-> "INSERT", row |-> FileAuthorRow(filepath_id, ids[i], field, i)]]

\* The INSERTs of lines 1528-1530 and 1590-1592: the whole list, the index
\* of an author is its place in the list, from 0
FileAuthorInserts(filepath_id, field, ids) ==
    [i \in DOMAIN ids |->
        [op |-> "INSERT", row |-> FileAuthorRow(filepath_id, ids[i], field, i - 1)]]

\* The DELETE of line 1588: every row of the filepath and the author type
FileAuthorDelete(filepath_id, field) ==
    << [op |-> "DELETE", row |-> FileAuthorRow(filepath_id, 0, field, 0)] >>

\* A comparison of the two lists as sets
AuthorListsDiffer_as_sets(in_csv_file, in_db) == Range(in_csv_file) # Range(in_db)

\* Line 1581: the list of the catalogue is not the stored list
AuthorListsDiffer(in_csv_file, in_db) == in_csv_file # in_db

\* The statements of lines 1550-1592 for one filepath and one author type
FileAuthorOps(filepath_id, field, rec, existing, build) ==
    LET author_info_in_csv_file == Has(rec, field)
        author_info_in_db ==
            /\ ~build
            /\ filepath_id \in DOMAIN existing
            /\ field \in DOMAIN existing[filepath_id]
        differ ==
            /\ author_info_in_csv_file
            /\ author_info_in_db
            /\ AuthorListsDiffer(rec[field].list, existing[filepath_id][field])
        issue_delete_query == (~author_info_in_csv_file /\ author_info_in_db) \/ differ
        issue_insert_query == (author_info_in_csv_file /\ ~author_info_in_db) \/ differ
    IN  (IF issue_delete_query THEN FileAuthorDelete(filepath_id, field) ELSE <<>>)
          \o (IF issue_insert_query
              THEN FileAuthorInserts(filepath_id, field, rec[field].list)
              ELSE <<>>)

\* The statements of the whole loop over sorted(file_data) (lines 1518-1592)
AllFileAuthorOps(data, existing, build) ==
    LET paths == Filepaths(data)
    IN  Concat([i \in DOMAIN paths |->
                  Concat([j \in DOMAIN author_field_list |->
                            FileAuthorOps(data[paths[i]]["ID"], author_field_list[j],
                                          data[paths[i]], existing, build)])])

\* A table nvg_file_authors without its primary key and its unique index
FileAuthorInsertOk_no_keys(row, rows, files, authors) ==
    /\ row.filepath_id \in {f["filepath_id"] : f \in files}
    /\ row.author_id \in {a["author_id"] : a \in authors}

\* The keys of nvg_file_authors (lines 261-264): PRIMARY KEY (filepath_id,
\* author_id, author_type), UNIQUE (filepath_id, author_type, author_index)
\* and the two foreign keys
FileAuthorInsertOk(row, rows, files, authors) ==
    /\ \A r \in rows :
          ~(r.filepath_id = row.filepath_id /\ r.author_id = row.author_id
              /\ r.author_type = row.author_type)
    /\ \A r \in rows :
          ~(r.filepath_id = row.filepath_id /\ r.author_type = row.author_type
              /\ r.author_index = row.author_index)
    /\ row.filepath_id \in {f["filepath_id"] : f \in files}
    /\ row.author_id \in {a["author_id"] : a \in authors}

\* The statements executed in order inside one transaction: the rows they
\* leave, and whether the server accepted them all
RECURSIVE ApplyFileAuthorOps(_, _, _, _)
ApplyFileAuthorOps(rows, ops, files, authors) ==
    IF Len(ops) = 0 THEN [ok |-> TRUE, rows |-> rows]
    ELSE LET o == ops[1]
         IN  IF o.op = "DELETE"
             THEN ApplyFileAuthorOps(
                      {r \in rows : ~(r.filepath_id = o.row.filepath_id
                                        /\ r.author_type = o.row.author_type)},
                      Tail(ops), files, authors)
             ELSE IF FileAuthorInsertOk(o.row, rows, files, authors)
                  THEN ApplyFileAuthorOps(rows \cup {o.row}, Tail(ops), files, authors)
                  ELSE [ok |-> FALSE, rows |-> rows]

\* A name the program reads before any assignment to it (a read of the
\* snapshot failed): the loop body raises NameError for the first record
SnapshotMissing(reads_needed) ==
    ~build_db_flag /\ snapshot_reads < reads_needed /\ DOMAIN file_data # {}

\* Lines 1510-1621: the author information of every filepath, in one
\* transaction
SyncFileAuthors ==
    /\ pc = "file_authors"
    /\ LET ops == AllFileAuthorOps(file_data, existing_filepath_id_author_info,
                                   build_db_flag)
           result == ApplyFileAuthorOps(nvg_file_authors, ops, nvg, nvg_author_ids)
       IN  IF ~SnapshotMissing(5) /\ result.ok
           THEN /\ nvg_file_authors' = result.rows
                /\ sql_log' = sql_log \o
                       [i \in DOMAIN ops |->
                           Stmt(ops[i].op, "nvg_file_authors", {ops[i].row.filepath_id})]
                /\ pc' = "title_aliases"
           ELSE /\ Abort
                /\ UNCHANGED << nvg_file_authors, sql_log >>
    /\ UNCHANGED << db_state, nvg, nvg_type_ids, nvg_publication_type_ids,
                    nvg_author_ids, nvg_title_aliases, auto_increment, envVars,
                    build_db_flag, file_data, author_aliases_dict, authors_to_add,
                    snapshotVars, dictVars >>

\* A statement or the commit raises a store error (lines 1615-1621)
SyncFileAuthorsFails ==
    /\ pc = "file_authors"
    /\ CanFail
    /\ faults' = faults + 1
    /\ Abort
    /\ UNCHANGED << storeVars, focus, langVars, cpcpowerVars, databaseVars,
                    run, csv_input, last_run,
                    run_start, localVars >>

\* ----------------------------------------------- table nvg_title_aliases

TitleAliasRow(filepath_id, title) == [filepath_id |-> filepath_id, title |-> title]

\* Lines 1684-1685: the titles of the catalogue and the stored titles are
\* compared as sets
TitleAliasesDiffer(in_csv_file, in_db) == Range(in_csv_file) # Range(in_db)

\* The statements of lines 1652-1695 for one filepath
TitleAliasOps(filepath_id, rec, existing, build) ==
    LET title_alias_info_in_csv_file == Has(rec, "ALSO KNOWN AS")
        title_alias_info_in_db == ~build /\ filepath_id \in DOMAIN existing
        differ ==
            /\ title_alias_info_in_csv_file
            /\ title_alias_info_in_db
            /\ TitleAliasesDiffer(rec["ALSO KNOWN AS"].list, existing[filepath_id])
        issue_delete_query ==
            (~title_alias_info_in_csv_file /\ title_alias_info_in_db) \/ differ
        issue_insert_query ==
            (title_alias_info_in_csv_file /\ ~title_alias_info_in_db) \/ differ
    IN  (IF issue_delete_query
         THEN << [op |-> "DELETE", row |-> TitleAliasRow(filepath_id, "")] >>
         ELSE <<>>)
          \o (IF issue_insert_query
              THEN [i \in DOMAIN rec["ALSO KNOWN AS"].list |->
                      [op |-> "INSERT",
                       row |-> TitleAliasRow(filepath_id, rec["ALSO KNOWN AS"].list[i])]]
              ELSE <<>>)

AllTitleAliasOps(data, existing, build) ==
    LET paths == Filepaths(data)
    IN  Concat([i \in DOMAIN paths |->
                  TitleAliasOps(data[paths[i]]["ID"], data[paths[i]], existing, build)])

\* The keys of nvg_title_aliases (lines 238-239): PRIMARY KEY (filepath_id,
\* title) and the foreign key
TitleAliasInsertOk(row, rows, files) ==
    /\ row \notin rows
    /\ row.filepath_id \in {f["filepath_id"] : f \in files}

RECURSIVE ApplyTitleAliasOps(_, _, _)
ApplyTitleAliasOps(rows, ops, files) ==
    IF Len(ops) = 0 THEN [ok |-> TRUE, rows |-> rows]
    ELSE LET o == ops[1]
         IN  IF o.op = "DELETE"
             THEN ApplyTitleAliasOps({r \in rows : r.filepath_id # o.row.filepath_id},
                                     Tail(ops), files)
             ELSE IF TitleAliasInsertOk(o.row, rows, files)
                  THEN ApplyTitleAliasOps(rows \cup {o.row}, Tail(ops), files)
                  ELSE [ok |-> FALSE, rows |-> rows]

\* Lines 1629-1724: the title aliases of every filepath, in one transaction
SyncTitleAliases ==
    /\ pc = "title_aliases"
    /\ LET ops == AllTitleAliasOps(file_data, existing_title_aliases_dict, build_db_flag)
           result == ApplyTitleAliasOps(nvg_title_aliases, ops, nvg)
       IN  IF ~SnapshotMissing(4) /\ result.ok
           THEN /\ nvg_title_aliases' = result.rows
                /\ sql_log' = sql_log \o
                       [i \in DOMAIN ops |->
                           Stmt(ops[i].op, "nvg_title_aliases", {ops[i].row.filepath_id})]
                /\ pc' = "close"
           ELSE /\ Abort
                /\ UNCHANGED << nvg_title_aliases, sql_log >>
    /\ UNCHANGED << db_state, nvg, nvg_type_ids, nvg_publication_type_ids,
                    nvg_author_ids, nvg_file_authors, auto_increment, envVars,
                    build_db_flag, file_data, author_aliases_dict, authors_to_add,
                    snapshotVars, dictVars >>

\* A statement or the commit raises a store error (lines 1718-1724)
SyncTitleAliasesFails ==
    /\ pc = "title_aliases"
    /\ CanFail
    /\ faults' = faults + 1
    /\ Abort
    /\ UNCHANGED << storeVars, focus, langVars, cpcpowerVars, databaseVars,
                    run, csv_input, last_run,
                    run_start, localVars >>

\* Line 1727: everything is done, the connection is closed
CloseConnection ==
    /\ pc = "close"
    /\ pc' = "done"
    /\ UNCHANGED << storeVars, envVars, localVars >>

\* ----------------------------------------------------------- specification

Next ==
    \/ StartRun
    \/ SetupDbOk
    \/ SetupDbFails
    \/ ReadSnapshotOk
    \/ ReadSnapshotFails
    \/ ReadSnapshotNoTables
    \/ DeleteNothing
    \/ DeleteFromTable
    \/ DeleteFails
    \/ GetAuthors
    \/ GetAuthorsFails
    \/ InsertTypeIds
    \/ InsertPublicationTypeIds
    \/ InsertLookupFails
    \/ InsertAuthors
    \/ InsertAuthorsFails
    \/ UpdateAuthorAliases
    \/ UpdateAuthorAliasesFails
    \/ ConvertFileData
    \/ UpdateFilepaths
    \/ UpdateFilepathsFails
    \/ InsertFilepaths
    \/ InsertFilepathsFails
    \/ SyncFileAuthors
    \/ SyncFileAuthorsFails
    \/ SyncTitleAliases
    \/ SyncTitleAliasesFails
    \/ CloseConnection

Spec == Init /\ [][Next]_vars

\* ------------------------------------- class Database: the language codes

\* The language codes of the model (IETF tags such as 'en', 'fr'), the codes
\* the methods are called with, and the sizes of the vocabulary the
\* database may have when the calls start
LanguageCodes == 1..(MaxSetMembers + 2)

CallCodes == {1, MaxSetMembers, MaxSetMembers + 1, MaxSetMembers + 2}

InitialVocabularies == {1..n : n \in {0, 2, MaxSetMembers - 1, MaxSetMembers}}

\* A server that puts no limit on the members of a SET
SetTooBig_never(members) == FALSE

\* The server refuses a SET of more than 64 members (lines 835-837)
SetTooBig(members) == Cardinality(members) > MaxSetMembers

\* What the server answers to ALTER TABLE nvg MODIFY languages SET(members):
\* error 1097 for a SET that is too big, which the driver raises as
\* InternalError (line 832), and error 1265 for a SET that lacks a code that
\* a row holds, which the driver raises as DataError (line 929)
AlterRefused(members) ==
    IF SetTooBig(members) THEN Raised("InternalError", ER_TOO_BIG_SET)
    ELSE IF ~(languages_in_use \subseteq members)
         THEN Raised("DataError", WARN_DATA_TRUNCATED)
         ELSE NoError

\* The store errors a statement may end in besides these two: an exception
\* of one of the driver's classes with an error number that no handler
\* tests for
StoreErrors == {Raised(c, 0) : c \in {"InternalError", "OperationalError", "DataError"}}

\* insert_language(name, code), lines 806-854.  alter_error is what the
\* ALTER TABLE raises when it is executed and row_error what the INSERT or
\* the commit raises; ALTER TABLE commits by itself
insert_language(code, alter_error, row_error) ==
    LET alter == code \notin languages_column_set
        error == IF alter THEN alter_error ELSE NoError
        caught == error # NoError /\ error.class = "InternalError"
        raised_again == caught /\ error.errno = ER_TOO_BIG_SET
        propagates == error # NoError /\ ~caught
        insert_error ==
            IF code \in nvg_language_codes THEN Raised("IntegrityError", 0)
            ELSE row_error
    IN  [column_set |-> IF alter /\ error = NoError
                        THEN languages_column_set \cup {code}
                        ELSE languages_column_set,
         codes |-> IF ~raised_again /\ ~propagates /\ insert_error = NoError
                   THEN nvg_language_codes \cup {code}
                   ELSE nvg_language_codes,
         raised |-> IF raised_again THEN Raised("DataError", ER_TOO_BIG_SET)
                    ELSE IF propagates THEN error
                    ELSE insert_error,
         returned |-> IF raised_again \/ propagates \/ insert_error # NoError
                      THEN None
                      ELSE code]

\* delete_language whose handler rolls back and raises nothing
delete_language_swallows(code, alter_error, row_error) ==
    LET alter == code \in languages_column_set
        error == IF alter THEN alter_error ELSE NoError
        caught == error # NoError /\ error.class = "DataError"
        raised_again == FALSE
        propagates == error # NoError /\ ~caught
    IN  [column_set |-> IF alter /\ error = NoError
                        THEN languages_column_set \ {code}
                        ELSE languages_column_set,
         codes |-> IF ~raised_again /\ ~propagates /\ row_error = NoError
                   THEN nvg_language_codes \ {code}
                   ELSE nvg_language_codes,
         raised |-> IF raised_again THEN Raised("DataError", WARN_DATA_TRUNCATED)
                    ELSE IF propagates THEN error
                    ELSE row_error,
         returned |-> IF raised_again \/ propagates \/ row_error # NoError
                      THEN None
                      ELSE code \in nvg_language_codes]

\* delete_language(code), lines 904-950: the value returned is whether the
\* DELETE removed a row (lines 939-950)
delete_language(code, alter_error, row_error) ==
    LET alter == code \in languages_column_set
        error == IF alter THEN alter_error ELSE NoError
        caught == error # NoError /\ error.class = "DataError"
        raised_again == caught /\ error.errno = WARN_DATA_TRUNCATED
        propagates == error # NoError /\ ~caught
    IN  [column_set |-> IF alter /\ error = NoError
                        THEN languages_column_set \ {code}
                        ELSE languages_column_set,
         codes |-> IF ~raised_again /\ ~propagates /\ row_error = NoError
                   THEN nvg_language_codes \ {code}
                   ELSE nvg_language_codes,
         raised |-> IF raised_again THEN Raised("DataError", WARN_DATA_TRUNCATED)
                    ELSE IF propagates THEN error
                    ELSE row_error,
         returned |-> IF raised_again \/ propagates \/ row_error # NoError
                      THEN None
                      ELSE code \in nvg_language_codes]

programVars ==
    << storeVars, cpcpowerVars, databaseVars, focus, run, csv_input, last_run,
       run_start, snapshotVars,
       dictVars, pc,
       build_db_flag, file_data, author_aliases_dict, authors_to_add, sql_log >>

\* The state a call of a method leaves
LanguageCall(method, code, result) ==
    /\ languages_column_set' = result.column_set
    /\ nvg_language_codes' = result.codes
    /\ language_call' = [method |-> method, code |-> code, raised |-> result.raised,
                          returned |-> result.returned]
    /\ UNCHANGED << languages_in_use, programVars >>

\* A call of insert_language that no store error interrupts
InsertLanguage ==
    \E code \in CallCodes :
        /\ LanguageCall("insert_language", code,
              insert_language(code, AlterRefused(languages_column_set \cup {code}),
                              NoError))
        /\ UNCHANGED faults

\* The ALTER TABLE of insert_language ends in a store error
InsertLanguageAlterFails ==
    \E code \in CallCodes, error \in StoreErrors :
        /\ CanFail
        /\ code \notin languages_column_set
        /\ faults' = faults + 1
        /\ LanguageCall("insert_language", code, insert_language(code, error, NoError))

\* The INSERT of insert_language, or its commit, ends in a store error
InsertLanguageRowFails ==
    \E code \in CallCodes, error \in StoreErrors :
        LET result == insert_language(
                          code, AlterRefused(languages_column_set \cup {code}), error)
        IN  /\ CanFail
            /\ result.raised = error
            /\ faults' = faults + 1
            /\ LanguageCall("insert_language", code, result)

\* A call of delete_language that no store error interrupts
DeleteLanguage ==
    \E code \in CallCodes :
        /\ LanguageCall("delete_language", code,
              delete_language(code, AlterRefused(languages_column_set \ {code}),
                              NoError))
        /\ UNCHANGED faults

\* The ALTER TABLE of delete_language ends in a store error
DeleteLanguageAlterFails ==
    \E code \in CallCodes, error \in StoreErrors :
        /\ CanFail
        /\ code \in languages_column_set
        /\ faults' = faults + 1
        /\ LanguageCall("delete_language", code, delete_language(code, error, NoError))

\* The DELETE of delete_language, or its commit, ends in a store error
DeleteLanguageRowFails ==
    \E code \in CallCodes, error \in StoreErrors :
        LET result == delete_language(
                          code, AlterRefused(languages_column_set \ {code}), error)
        IN  /\ CanFail
            /\ result.raised = error
            /\ faults' = faults + 1
            /\ LanguageCall("delete_language", code, result)

\* A database that is built: the vocabulary and the SET hold the same codes,
\* and the rows of nvg hold some of them
LanguagesInit ==
    /\ db_state = "ok"
    /\ EmptyStore
    /\ focus = "files"
    /\ run = 0
    /\ faults = 0
    /\ csv_input = NoInput
    /\ last_run = NoRun
    /\ run_start = NoStart
    /\ pc = "idle"
    /\ build_db_flag = FALSE
    /\ file_data = EmptyDict
    /\ author_aliases_dict = EmptyDict
    /\ type_ids_dict = EmptyDict
    /\ publication_type_ids_dict = EmptyDict
    /\ snapshot_reads = 0
    /\ existing_filepath_ids = EmptyDict
    /\ existing_title_aliases_dict = EmptyDict
    /\ existing_filepath_id_author_info = EmptyDict
    /\ author_ids_dict = EmptyDict
    /\ authors_to_add = <<>>
    /\ sql_log = <<>>
    /\ nvg_language_codes \in InitialVocabularies
    /\ languages_column_set = nvg_language_codes
    /\ languages_in_use \in {{}, nvg_language_codes \cap {1}}
    /\ language_call = NoCall
    /\ cpcpower_csv_file = << >>
    /\ cpcpower_call = NotRead
    /\ database_call = NotCalled

LanguagesNext ==
    \/ InsertLanguage
    \/ InsertLanguageAlterFails
    \/ InsertLanguageRowFails
    \/ DeleteLanguage
    \/ DeleteLanguageAlterFails
    \/ DeleteLanguageRowFails

LanguagesSpec == LanguagesInit /\ [][LanguagesNext]_vars

\* ------------------------------------------------------------- properties

\* C1: when an incremental run has completed, the filepaths stored in table
\* nvg are exactly the filepaths of the catalogue it read, and a filepath
\* that was stored and is in the catalogue keeps the row (the id) it had
C1_StoredPathsAreInputPaths ==
    (pc = "done" /\ ~build_db_flag) =>
        /\ {r["filepath"] : r \in nvg} = DOMAIN file_data
        /\ \A p \in (DOMAIN existing_filepath_ids) \cap (DOMAIN file_data) :
              \E r \in nvg :
                  r["filepath"] = p /\ r["filepath_id"] = existing_filepath_ids[p]

\* An incremental run that deleted a stored filepath and inserted a new one
\* has completed
C1_Witness ==
    /\ pc = "done"
    /\ ~build_db_flag
    /\ snapshot_reads = 5
    /\ \E i \in DOMAIN sql_log : sql_log[i].op = "DELETE" /\ sql_log[i].table = "nvg"
    /\ \E i \in DOMAIN sql_log : sql_log[i].op = "INSERT" /\ sql_log[i].table = "nvg"

\* C2 as stated: when a run has completed, the row of every filepath of the
\* catalogue holds the values of the converted record, and every column the
\* record has no value for is NULL, comments included
C2_AbsentValuesAreNull ==
    pc = "done" =>
        \A p \in DOMAIN file_data :
            \E r \in nvg :
                /\ r["filepath"] = p
                /\ r["file_size"] = file_data[p]["Size"]
                /\ IF Has(file_data[p], "TITLE")
                   THEN Has(r, "title") /\ r["title"] = file_data[p]["TITLE"]
                   ELSE ~Has(r, "title")
                /\ IF Has(file_data[p], "TYPE")
                   THEN Has(r, "type_id") /\ r["type_id"] = file_data[p]["TYPE"].int
                   ELSE ~Has(r, "type_id")
                /\ IF Has(file_data[p], "PUBLICATION")
                   THEN /\ Has(r, "publication_type_id")
                        /\ r["publication_type_id"] = file_data[p]["PUBLICATION"].int
                   ELSE ~Has(r, "publication_type_id")
                /\ IF Has(file_data[p], "COMMENTS")
                   THEN Has(r, "comments") /\ r["comments"] = file_data[p]["COMMENTS"]
                   ELSE ~Has(r, "comments")

\* C2: when a run has completed, the row of every filepath of the catalogue
\* holds the values of the converted record; every column the record has no
\* value for is NULL, except comments, which is the empty string
C2_RowsHoldTheRecords ==
    pc = "done" =>
        \A p \in DOMAIN file_data :
            \E r \in nvg :
                /\ r["filepath"] = p
                /\ r["file_size"] = file_data[p]["Size"]
                /\ IF Has(file_data[p], "TITLE")
                   THEN Has(r, "title") /\ r["title"] = file_data[p]["TITLE"]
                   ELSE ~Has(r, "title")
                /\ IF Has(file_data[p], "TYPE")
                   THEN Has(r, "type_id") /\ r["type_id"] = file_data[p]["TYPE"].int
                   ELSE ~Has(r, "type_id")
                /\ IF Has(file_data[p], "PUBLICATION")
                   THEN /\ Has(r, "publication_type_id")
                        /\ r["publication_type_id"] = file_data[p]["PUBLICATION"].int
                   ELSE ~Has(r, "publication_type_id")
                /\ Has(r, "comments")
                /\ r["comments"] = IF Has(file_data[p], "COMMENTS")
                                   THEN file_data[p]["COMMENTS"]
                                   ELSE ""

\* An incremental run has updated a filepath that the run before stored with
\* a title and comments, from a record that has neither
C2_Witness ==
    /\ pc = "done"
    /\ ~build_db_flag
    /\ last_run.outcome = "done"
    /\ "a.zip" \in DOMAIN last_run.input.catalog
    /\ Has(last_run.input.catalog["a.zip"], "TITLE")
    /\ Has(last_run.input.catalog["a.zip"], "COMMENTS")
    /\ last_run.input.catalog["a.zip"]["COMMENTS"] = "c"
    /\ "a.zip" \in DOMAIN file_data
    /\ ~Has(file_data["a.zip"], "TITLE")
    /\ ~Has(file_data["a.zip"], "COMMENTS")
    /\ \E i \in DOMAIN sql_log :
          sql_log[i] = Stmt("UPDATE", "nvg", {file_data["a.zip"]["ID"]})
    /\ \E r \in nvg : r["filepath"] = "a.zip" /\ ~Has(r, "title") /\ r["comments"] = ""

\* C3 as stated: an incremental run that follows a completed run and reads
\* the same files has no statement executed
C3_NoStatementOnSecondRun ==
    (/\ pc = "done"
     /\ ~build_db_flag
     /\ last_run.outcome = "done"
     /\ last_run.input = csv_input) => sql_log = <<>>

\* C3: an incremental run that follows a completed run, reads the same
\* files and has read the current state of the database without an error
\* inserts no row and deletes no row of any table and updates no author; the
\* only statements it has executed are the UPDATEs of table nvg, one for
\* every filepath
C3_SecondRunOnlyRewrites ==
    [][ (/\ pc \notin {"idle", "done", "aborted"}
         /\ ~build_db_flag
         /\ last_run.outcome = "done"
         /\ last_run.input = csv_input
         /\ (pc = "snapshot" \/ snapshot_reads = 5)) =>
            /\ UNCHANGED << db_state, nvg_type_ids, nvg_publication_type_ids,
                            nvg_author_ids, nvg_file_authors, nvg_title_aliases,
                            auto_increment >>
            /\ {<< r["filepath_id"], r["filepath"] >> : r \in nvg'} =
                   {<< r["filepath_id"], r["filepath"] >> : r \in nvg}
            /\ \A i \in DOMAIN sql_log' :
                  sql_log'[i].op = "UPDATE" /\ sql_log'[i].table = "nvg"
            /\ pc' = "done" => Len(sql_log') = Cardinality(DOMAIN file_data) ]_vars

\* The second of two runs on the same catalogue of two filepaths has
\* completed
C3_Witness ==
    /\ pc = "done"
    /\ ~build_db_flag
    /\ last_run.outcome = "done"
    /\ last_run.input = csv_input
    /\ DOMAIN file_data = {"a.zip", "b.zip"}
    /\ Len(sql_log) = 2
    /\ nvg_file_authors # {}

\* C4: once the author information of a run is stored, the rows of every
\* filepath and author type, read in the order of author_index, give the
\* authors in the order of the names in the field of the catalogue; a
\* filepath without the field has no row of the type
C4_AuthorsKeepTheirOrder ==
    pc \in {"title_aliases", "close", "done"} =>
        \A p \in DOMAIN file_data : \A f \in Range(author_field_list) :
            LET rows == {r \in nvg_file_authors :
                           r.filepath_id = file_data[p]["ID"] /\ r.author_type = f}
                ids == AuthorsInOrder(rows)
            IN  IF Has(file_data[p], f)
                THEN /\ ids = file_data[p][f].list
                     /\ Cardinality(rows) = Len(ids)
                     /\ \A i \in DOMAIN ids :
                           \E a \in nvg_author_ids :
                               /\ a["author_id"] = ids[i]
                               /\ a["author_name"] =
                                      SplitNames(csv_input.catalog[p][f])[i]
                ELSE rows = {}

\* An incremental run has replaced the authors "Bob, Al" of a filepath by
\* "Al, Bob"
C4_Witness ==
    /\ pc = "done"
    /\ ~build_db_flag
    /\ last_run.outcome = "done"
    /\ "a.zip" \in DOMAIN last_run.input.catalog
    /\ Has(last_run.input.catalog["a.zip"], "AUTHOR")
    /\ last_run.input.catalog["a.zip"]["AUTHOR"] = StrVal(<<"Bob", " Al">>)
    /\ "a.zip" \in DOMAIN csv_input.catalog
    /\ Has(csv_input.catalog["a.zip"], "AUTHOR")
    /\ csv_input.catalog["a.zip"]["AUTHOR"] = StrVal(<<"Al", " Bob">>)
    /\ \E i \in DOMAIN sql_log :
          sql_log[i] = Stmt("DELETE", "nvg_file_authors", {file_data["a.zip"]["ID"]})

\* C5: in the title-alias step of an incremental run that no store error
\* interrupts, a filepath whose stored titles are the titles of its record,
\* in any order, has no statement executed and keeps its rows; for a
\* filepath whose titles differ as sets the stored titles are deleted and
\* every title of the record is inserted
C5_TitleAliasesComparedAsSets ==
    [][ (pc = "title_aliases" /\ ~build_db_flag /\ faults' = faults) =>
          LET issued == SubSeq(sql_log', Len(sql_log) + 1, Len(sql_log'))
              Stored(p) == {r \in nvg_title_aliases : r.filepath_id = file_data[p]["ID"]}
              Titles(p) == IF Has(file_data[p], "ALSO KNOWN AS")
                           THEN file_data[p]["ALSO KNOWN AS"].list
                           ELSE <<>>
              Same(p) == {r.title : r \in Stored(p)} = Range(Titles(p))
              IssuedFor(p, op) ==
                  {i \in DOMAIN issued :
                      issued[i] = Stmt(op, "nvg_title_aliases", {file_data[p]["ID"]})}
          IN  \A p \in DOMAIN file_data :
                  IF Same(p)
                  THEN /\ IssuedFor(p, "DELETE") = {}
                       /\ IssuedFor(p, "INSERT") = {}
                       /\ \A r \in Stored(p) : r \in nvg_title_aliases'
                  ELSE /\ (IssuedFor(p, "DELETE") # {}) = (Stored(p) # {})
                       /\ Cardinality(IssuedFor(p, "INSERT")) = Len(Titles(p))
                       /\ {r.title : r \in {q \in nvg_title_aliases' :
                               q.filepath_id = file_data[p]["ID"]}}
                            = Range(Titles(p)) ]_vars

\* C6: no row of nvg_file_authors or nvg_title_aliases is ever committed
\* without the row of nvg it references, the passes of the deletion
\* included; once the deletion of an incremental run is over, a stored
\* filepath that is not in the catalogue has no row in any of the three
\* tables; and the server never refuses a pass of the deletion
C6_DeletionLeavesNoOrphans ==
    /\ [](\A r \in nvg_file_authors \cup nvg_title_aliases :
              r.filepath_id \in {f["filepath_id"] : f \in nvg})
    /\ []((/\ ~build_db_flag
           /\ snapshot_reads >= 1
           /\ pc \in {"get_authors", "insert_authors", "update_aliases", "convert",
                      "update_files", "insert_files", "file_authors",
                      "title_aliases", "close", "done"}) =>
              \A p \in filepaths_to_delete :
                  /\ \A f \in nvg :
                        f["filepath"] # p /\ f["filepath_id"] # existing_filepath_ids[p]
                  /\ \A r \in nvg_file_authors \cup nvg_title_aliases :
                        r.filepath_id # existing_filepath_ids[p])
    /\ [][(pc \in Range(DeletePc) /\ faults' = faults) => pc' # "aborted"]_vars

\* The deletion of an incremental run is over for a filepath that the run
\* before stored with an author and a title alias
C6_Witness ==
    /\ pc = "get_authors"
    /\ ~build_db_flag
    /\ last_run.outcome = "done"
    /\ "a.zip" \in DOMAIN last_run.input.catalog
    /\ Has(last_run.input.catalog["a.zip"], "AUTHOR")
    /\ Has(last_run.input.catalog["a.zip"], "ALSO KNOWN AS")
    /\ "a.zip" \in filepaths_to_delete
    /\ sql_log = [k \in 1..3 |->
                    Stmt("DELETE", delete_table_order[k], {existing_filepath_ids["a.zip"]})]
    /\ \A f \in nvg : f["filepath"] # "a.zip"

\* C7: every committed row of nvg that has a type_id or a
\* publication_type_id references a committed row of nvg_type_ids or
\* nvg_publication_type_ids, and every committed row of nvg_file_authors
\* references committed rows of nvg and nvg_author_ids; a transaction that
\* writes such a row finds the rows it references committed already
C7_ReferencesAreCommitted ==
    /\ [](/\ \A r \in nvg :
                /\ Has(r, "type_id") =>
                      r["type_id"] \in {t.type_id : t \in nvg_type_ids}
                /\ Has(r, "publication_type_id") =>
                      r["publication_type_id"] \in
                          {t.type_id : t \in nvg_publication_type_ids}
          /\ \A r \in nvg_file_authors :
                /\ r.filepath_id \in {f["filepath_id"] : f \in nvg}
                /\ r.author_id \in {a["author_id"] : a \in nvg_author_ids})
    /\ [][ /\ \A r \in nvg' \ nvg :
                /\ Has(r, "type_id") =>
                      r["type_id"] \in {t.type_id : t \in nvg_type_ids}
                /\ Has(r, "publication_type_id") =>
                      r["publication_type_id"] \in
                          {t.type_id : t \in nvg_publication_type_ids}
           /\ \A r \in nvg_file_authors' \ nvg_file_authors :
                /\ r.filepath_id \in {f["filepath_id"] : f \in nvg}
                /\ r.author_id \in {a["author_id"] : a \in nvg_author_ids} ]_vars

\* An incremental run has completed after it updated a filepath that has a
\* type, a publication type and an author
C7_Witness ==
    /\ pc = "done"
    /\ ~build_db_flag
    /\ \E r \in nvg :
          /\ Has(r, "type_id")
          /\ Has(r, "publication_type_id")
          /\ \E a \in nvg_file_authors : a.filepath_id = r["filepath_id"]
          /\ \E i \in DOMAIN sql_log :
                sql_log[i] = Stmt("UPDATE", "nvg", {r["filepath_id"]})

\* C8: when a run whose alias mapping is not empty has completed, every
\* alias and every name it stands for have a row of nvg_author_ids and the
\* row of the alias holds the id of the name; a link is only ever written
\* between two rows that were committed before, and the alias step executes
\* an UPDATE for exactly the rows whose link it changes
C8_AliasLinksAreSet ==
    /\ []((pc = "done" /\ DOMAIN author_aliases_dict # {}) =>
              \A n \in DOMAIN author_aliases_dict :
                  \E a \in nvg_author_ids, t \in nvg_author_ids :
                      /\ a["author_name"] = n
                      /\ t["author_name"] = author_aliases_dict[n]
                      /\ Has(a, "alias_of_author_id")
                      /\ a["alias_of_author_id"] = t["author_id"])
    /\ [][ /\ \A r \in nvg_author_ids' \ nvg_author_ids :
                Has(r, "alias_of_author_id") =>
                    /\ r["author_id"] \in {a["author_id"] : a \in nvg_author_ids}
                    /\ r["alias_of_author_id"] \in
                          {a["author_id"] : a \in nvg_author_ids}
           /\ pc = "update_aliases" =>
                {sql_log'[i].ids : i \in (DOMAIN sql_log') \ (DOMAIN sql_log)}
                    = {{r["author_id"]} : r \in nvg_author_ids' \ nvg_author_ids} ]_vars

\* A run has completed that read the alias "Al" of "Alice", a name no
\* record of the catalogue has, and stored the link
C8_Witness ==
    /\ pc = "done"
    /\ author_aliases_dict = ("Al" :> "Alice")
    /\ \E a \in nvg_author_ids, t \in nvg_author_ids :
          /\ a["author_name"] = "Al"
          /\ t["author_name"] = "Alice"
          /\ Has(a, "alias_of_author_id")
          /\ a["alias_of_author_id"] = t["author_id"]
          /\ \E i \in DOMAIN sql_log :
                sql_log[i] = Stmt("UPDATE", "nvg_author_ids", {a["author_id"]})

\* C9: when an incremental run that found an alias file has completed, no
\* author whose name is not an alias of the file has a link (the run has
\* cleared the link of every other author), the file without rows included
C9_EveryOtherLinkIsCleared ==
    (pc = "done" /\ ~build_db_flag /\ csv_input.aliases.present) =>
        \A r \in nvg_author_ids :
            Has(r, "alias_of_author_id") =>
                r["author_name"] \in DOMAIN author_aliases_dict

\* C10: a run that finds no alias file has the empty alias mapping; it never
\* enters the alias step and does not end where the step is skipped; and
\* when the run is incremental every row of nvg_author_ids stays as it is
C10_MissingAliasFileChangesNoLink ==
    /\ [](~csv_input.aliases.present => author_aliases_dict = EmptyDict)
    /\ [][ (pc \notin {"idle", "done", "aborted"} /\ ~csv_input.aliases.present) =>
              /\ pc' # "update_aliases"
              /\ (/\ pc \in {"get_authors", "insert_publication_type_ids",
                             "insert_authors"}
                  /\ faults' = faults) => pc' # "aborted"
              /\ ~build_db_flag => \A r \in nvg_author_ids : r \in nvg_author_ids' ]_vars

\* An incremental run that found no alias file has completed, it stored the
\* authors of a filepath, and an alias stored by the run before has its link
C10_Witness ==
    /\ pc = "done"
    /\ ~build_db_flag
    /\ ~csv_input.aliases.present
    /\ \E r \in nvg_author_ids : Has(r, "alias_of_author_id")
    /\ \E i \in DOMAIN sql_log : sql_log[i].table = "nvg"
    /\ nvg_file_authors # {}

\* C11: no formula.  The branch of the conversion that halts at a name
\* without an id (the ELSE of ConvertFileData) is never taken: every name of
\* an author field is registered before the conversion.

\* C12: when the SET of column languages holds 64 codes, a call of
\* insert_language with a code that is not in it, which no other store error
\* interrupts, raises DataError 1097 (the error of the maximum of 64 language
\* codes) and leaves the vocabulary table and the SET as they are
C12_SixtyFifthCodeIsRefused ==
    [][ (/\ Cardinality(languages_column_set) = MaxSetMembers
         /\ language_call'.method = "insert_language"
         /\ language_call'.code \notin languages_column_set
         /\ faults' = faults) =>
            /\ language_call'.raised = Raised("DataError", ER_TOO_BIG_SET)
            /\ nvg_language_codes' = nvg_language_codes
            /\ languages_column_set' = languages_column_set ]_vars

\* insert_language has been called with a 65th code and has raised the error
C12_Witness ==
    /\ language_call.method = "insert_language"
    /\ language_call.code = MaxSetMembers + 1
    /\ language_call.raised = Raised("DataError", ER_TOO_BIG_SET)
    /\ languages_column_set = 1..MaxSetMembers
    /\ nvg_language_codes = 1..MaxSetMembers
    /\ faults = 0

\* C13: after any calls of insert_language and delete_language, whether
\* they succeed or fail at the ALTER TABLE or at the row statement, the codes
\* of the vocabulary table are the members of the SET; and a call whose
\* ALTER TABLE fails, with whatever store error, leaves the vocabulary table
\* as it is
C13_VocabularyAndSetInLockstep ==
    /\ [](nvg_language_codes = languages_column_set)
    /\ [][ (/\ language_call'.method \in {"insert_language", "delete_language"}
            /\ (language_call'.method = "insert_language")
                  = (language_call'.code \notin languages_column_set)
            /\ languages_column_set' = languages_column_set) =>
                nvg_language_codes' = nvg_language_codes ]_vars

\* ------------------------------------------------------------------ C14

\* The dict of create_id_dict right after it is built (lines 916-925), with
\* the names observed in the field it was built from
IdDictOf(field) == IF field = "TYPE" THEN type_ids_dict ELSE publication_type_ids_dict

IdDictBuilt == pc \in {"setup_db", "snapshot"}

\* The dict is a bijection from the observed names onto 1..N in which a name
\* whose lower-cased form sorts earlier has the smaller id
IdsInLowerCaseOrder(dict, names) ==
    /\ DOMAIN dict = names
    /\ {dict[n] : n \in names} = 1..Cardinality(names)
    /\ \A a, b \in names : LowerKey(a) < LowerKey(b) => dict[a] < dict[b]

\* C14 as stated: for the N distinct observed names of a category field
\* create_id_dict returns a bijection onto 1..N in the order of the
\* lower-cased names, and two names that differ only in case have two
\* distinct, adjacent ids.
C14_CaseVariantsAreAdjacent ==
    IdDictBuilt =>
        \A field \in {"TYPE", "PUBLICATION"} :
            LET dict == IdDictOf(field)
                names == FieldNames(file_data, field)
            IN  /\ IdsInLowerCaseOrder(dict, names)
                /\ \A a, b \in names :
                      (a # b /\ StrLower(a) = StrLower(b)) =>
                          (dict[a] = dict[b] + 1 \/ dict[b] = dict[a] + 1)

\* C14 amended: the same bijection and order, and the names that differ only
\* in case have distinct ids that are consecutive: no name with another
\* lower-cased form has an id between the ids of two of them.
C14_CaseVariantsAreConsecutive ==
    IdDictBuilt =>
        \A field \in {"TYPE", "PUBLICATION"} :
            LET dict == IdDictOf(field)
                names == FieldNames(file_data, field)
            IN  /\ IdsInLowerCaseOrder(dict, names)
                /\ \A a, b \in names :
                      (a # b /\ StrLower(a) = StrLower(b)) =>
                          /\ dict[a] # dict[b]
                          /\ \A x \in names :
                                (dict[a] < dict[x] /\ dict[x] < dict[b]) =>
                                    StrLower(x) = StrLower(a)

\* A new build whose catalogue names three types that differ only in case and
\* one more type
C14_Witness ==
    /\ pc = "setup_db"
    /\ build_db_flag
    /\ type_ids_dict = ("arcade game" :> 1) @@ ("ARCADE GAME" :> 2)
                          @@ ("Arcade game" :> 3) @@ ("Utility" :> 4)

\* ------------------------------------------------------------------ C15

\* The normaliser has converted every record of this run
Normalised ==
    pc \in {"update_files", "insert_files", "file_authors", "title_aliases",
            "close", "done"}

CategoryFields == {"TYPE", "PUBLICATION"}

\* C15: in a new build the whole value of every TYPE field (after the
\* correction of misspellings) and of every PUBLICATION field is a key of its
\* name-to-id dict, whether or not the value holds a comma, so after the
\* normaliser every type and publication type of a record is an id and none
\* is a raw string.
C15_EveryCategoryIsResolved ==
    build_db_flag =>
        /\ pc = "convert" =>
              \A p \in DOMAIN file_data : \A field \in CategoryFields :
                  Has(file_data[p], field) =>
                      HasWhole(IdDictOf(field), file_data[p][field])
        /\ Normalised =>
              \A p \in DOMAIN file_data : \A field \in CategoryFields :
                  Has(file_data[p], field) => IsInt(file_data[p][field])

\* ------------------------------------------------------------------ C16

\* The vocabulary table of a category field
VocabularyOf(field) ==
    IF field = "TYPE" THEN nvg_type_ids ELSE nvg_publication_type_ids

CategoryColumn(field) == IF field = "TYPE" THEN "type_id" ELSE "publication_type_id"

\* The rows of a vocabulary table whose description is the whole value of a
\* field
RowsDescribing(field, v) ==
    {r \in VocabularyOf(field) : Len(v.str) = 1 /\ r.type_desc = v.str[1]}

\* C16: in an incremental run every file-type and publication-type
\* description of the input has a row in its vocabulary table before the
\* files are written, a completed run has stored every file with the id of
\* that row, and no row of a vocabulary table is removed or renumbered.
C16_NewCategoriesAreInserted ==
    /\ []((~build_db_flag /\ Normalised) =>
            \A p \in DOMAIN csv_input.catalog : \A field \in CategoryFields :
                LET rec == CorrectType(csv_input.catalog[p])
                IN  Has(rec, field) =>
                        /\ RowsDescribing(field, rec[field]) # {}
                        /\ pc = "done" =>
                              \E f \in nvg : \E r \in RowsDescribing(field, rec[field]) :
                                  /\ f["filepath"] = p
                                  /\ Has(f, CategoryColumn(field))
                                  /\ f[CategoryColumn(field)] = r.type_id)
    /\ [][ ~build_db_flag' =>
              /\ nvg_type_ids \subseteq nvg_type_ids'
              /\ nvg_publication_type_ids \subseteq nvg_publication_type_ids' ]_vars

\* ------------------------------------------------------------------ C17

\* The steps that write one table group in one transaction
BatchPcs ==
    {"update_aliases", "update_files", "insert_files", "file_authors",
     "title_aliases"}

\* C17: when a write of a table batch fails, no write of that batch is in
\* the committed store (for the deletion batch: the store still holds the
\* files, attributions and title aliases that the snapshot read just before
\* it), and nothing is written after the abort.
C17_FailedBatchLeavesNoWrite ==
    [][ /\ (pc \in BatchPcs /\ pc' = "aborted") => storeVars' = storeVars
        /\ (pc \in Range(DeletePc) /\ snapshot_reads = 5 /\ pc' = "aborted") =>
              /\ get_existing_filepath_ids' = existing_filepath_ids
              /\ get_existing_title_aliases' = existing_title_aliases_dict
              /\ get_existing_filepath_id_author_info' =
                     existing_filepath_id_author_info
        /\ pc = "aborted" => storeVars' = storeVars ]_vars

\* ------------------------------------------------------------------ C18

\* C18: in an incremental run a store error during the reads of the snapshot
\* ends the run at once, and the run commits no statement.
C18_FailedSnapshotEndsTheRun ==
    /\ [][ (pc = "snapshot" /\ faults' > faults) => pc' = "aborted" ]_vars
    /\ []((~build_db_flag /\ snapshot_reads < 5 /\ pc # "snapshot") => sql_log = <<>>)

\* ------------------------------------------------------------------ C19

\* The record of the catalogue has an upload date that is a '?', is not
\* dd/mm/yyyy or is no date of the calendar
UploadDateMalformed(rec) ==
    Has(rec, "Upload Date") /\ ~UploadDateValid(rec["Upload Date"].chars)

\* C19: a malformed upload date, or a '?', in a record of a stored or of a
\* new filepath, in an incremental run or in a new build, only removes the
\* field: the normaliser goes on to the writes, and a completed run has
\* written the record with upload_date null.
C19_MalformedDateOnlyDropsField ==
    /\ [][ (/\ pc = "convert"
            /\ \E p \in DOMAIN file_data : UploadDateMalformed(file_data[p])) =>
                /\ pc' = "update_files"
                /\ \A p \in DOMAIN file_data :
                      UploadDateMalformed(file_data[p]) =>
                          ~Has(file_data'[p], "Upload Date") ]_vars
    /\ [](pc = "done" =>
            \A p \in DOMAIN csv_input.catalog :
                UploadDateMalformed(csv_input.catalog[p]) =>
                    \E r \in nvg : r["filepath"] = p /\ ~Has(r, "upload_date"))

\* ------------------------------------------------------------------ C20

\* C20: after the normaliser the MEMORY REQUIRED of every record, stored or
\* new, is absent or is one of the integers 64, 128 and 256 that its text
\* <digits>K named; any other text is removed and no query gets the raw text.
C20_MemoryRequiredIsAbsentOrValid ==
    Normalised =>
        \A p \in DOMAIN file_data :
            Has(file_data[p], "MEMORY REQUIRED") =>
                /\ IsInt(file_data[p]["MEMORY REQUIRED"])
                /\ file_data[p]["MEMORY REQUIRED"].int \in memory_required_valid_values
                /\ MemoryRequiredValid(csv_input.catalog[p]["MEMORY REQUIRED"].chars)

\* ------------------------------------------------------------------ C22

\* C22: in every committed state of the store no row of nvg_author_ids has
\* an alias_of_author_id equal to its own author_id, also after a run whose
\* alias file maps a name to itself.
C22_NoAuthorIsItsOwnAlias ==
    \A r \in nvg_author_ids :
        Has(r, "alias_of_author_id") => r["alias_of_author_id"] # r["author_id"]

\* ------------------------------------------------------------------ C23

\* The (id, name) pairs of the authors
AuthorPairs(rows) == {<< r["author_id"], r["author_name"] >> : r \in rows}

\* No author and no category is deleted, renumbered or renamed by the step
VocabulariesOnlyGrow ==
    /\ AuthorPairs(nvg_author_ids) \subseteq AuthorPairs(nvg_author_ids')
    /\ Cardinality(nvg_author_ids') = Cardinality(AuthorPairs(nvg_author_ids'))
    /\ nvg_type_ids \subseteq nvg_type_ids'
    /\ nvg_publication_type_ids \subseteq nvg_publication_type_ids'

\* C23 as stated: no step of a run deletes an author or a category row or
\* changes its id, name or description: across every run the (id, name)
\* pairs of the authors and the rows of each category table only grow, and
\* alias_of_author_id is the only column of an author that changes.
C23_VocabulariesNeverShrink == [][VocabulariesOnlyGrow]_vars

\* C23 amended: the same of every step but _setup_db, which drops the
\* database a run in build mode finds.
C23_VocabulariesShrinkOnlyInSetup ==
    [][pc # "setup_db" => VocabulariesOnlyGrow]_vars

\* An incremental run has completed after it deleted a filepath, inserted an
\* author and changed the alias link of an author
C23_Witness ==
    /\ pc = "done"
    /\ ~build_db_flag
    /\ \E i \in DOMAIN sql_log : sql_log[i].op = "DELETE" /\ sql_log[i].table = "nvg"
    /\ \E i \in DOMAIN sql_log :
          sql_log[i].op = "INSERT" /\ sql_log[i].table = "nvg_author_ids"
    /\ \E i \in DOMAIN sql_log :
          sql_log[i].op = "UPDATE" /\ sql_log[i].table = "nvg_author_ids"
    /\ \E r \in nvg_author_ids : Has(r, "alias_of_author_id")

\* ------------------------------------------------------------------ C24

\* C24: a filepath that is stored before an incremental run and is in the
\* catalogue of the run keeps its filepath_id through every step of the run:
\* its row is never deleted, inserted again or renumbered, and once the run
\* has completed its authors and title aliases are rows of that filepath_id.
C24_FileIdsArePermanent ==
    /\ [][ ~build_db_flag' =>
              \A r \in nvg :
                  r["filepath"] \in DOMAIN csv_input'.catalog =>
                      \E q \in nvg' : /\ q["filepath"] = r["filepath"]
                                      /\ q["filepath_id"] = r["filepath_id"] ]_vars
    /\ []((~build_db_flag /\ pc = "done") =>
            \A p \in (DOMAIN file_data) \cap (DOMAIN existing_filepath_ids) :
                LET id == existing_filepath_ids[p]
                IN  /\ file_data[p]["ID"] = id
                    /\ \E r \in nvg : r["filepath"] = p /\ r["filepath_id"] = id
                    /\ \A i \in DOMAIN sql_log :
                          (sql_log[i].table = "nvg" /\ id \in sql_log[i].ids) =>
                              sql_log[i].op = "UPDATE"
                    /\ \A f \in AuthorFieldsOf(file_data[p]) :
                          \E a \in nvg_file_authors :
                              a.filepath_id = id /\ a.author_type = f
                    /\ Has(file_data[p], "ALSO KNOWN AS") =>
                          \E t \in nvg_title_aliases : t.filepath_id = id)

\* An incremental run has completed: it updated the stored filepath a.zip,
\* which has an author, and inserted b.zip after it
C24_Witness ==
    /\ pc = "done"
    /\ ~build_db_flag
    /\ DOMAIN file_data = {"a.zip", "b.zip"}
    /\ DOMAIN existing_filepath_ids = {"a.zip"}
    /\ \E r \in nvg : r["filepath"] = "a.zip" /\ r["filepath_id"] = 1
    /\ \E r \in nvg : r["filepath"] = "b.zip" /\ r["filepath_id"] = 2
    /\ \E a \in nvg_file_authors : a.filepath_id = 1

\* ------------------------------------------------------------------ C25

\* C25: in every committed state of the store nvg_file_authors has at most
\* one row for a (filepath_id, author_id, author_type) and at most one for a
\* (filepath_id, author_type, author_index), whatever the catalogue, also
\* when a record names the same author twice in one field.
C25_AttributionRowsAreUnique ==
    \A r, q \in nvg_file_authors :
        /\ (/\ r.filepath_id = q.filepath_id
            /\ r.author_id = q.author_id
            /\ r.author_type = q.author_type) => r = q
        /\ (/\ r.filepath_id = q.filepath_id
            /\ r.author_type = q.author_type
            /\ r.author_index = q.author_index) => r = q

\* A run without a store error has ended in the attribution sync of a record
\* whose AUTHOR field names Bob twice: the filepath is stored and nothing of
\* the transaction is
C25_Witness ==
    /\ pc = "aborted"
    /\ faults = 0
    /\ DOMAIN file_data = {"a.zip"}
    /\ Has(file_data["a.zip"], "ID")
    /\ Has(file_data["a.zip"], "AUTHOR")
    /\ file_data["a.zip"]["AUTHOR"] = ListVal(<< 1, 1 >>)
    /\ \E r \in nvg : r["filepath_id"] = file_data["a.zip"]["ID"]
    /\ nvg_file_authors = {}

\* ------------------------------------------------------------------ C29

\* C29: in every committed state of the store nvg_title_aliases has at most
\* one row for a (filepath_id, title), and the title-alias sync of a run
\* that meets no store error completes whatever the catalogue, also when an
\* ALSO KNOWN AS field holds the same title twice.
C29_TitleAliasSyncCompletes ==
    /\ [](\A r, q \in nvg_title_aliases :
            (r.filepath_id = q.filepath_id /\ r.title = q.title) => r = q)
    /\ [][ (/\ pc = "title_aliases"
            /\ faults' = faults
            /\ ~SnapshotMissing(4)) => pc' = "close" ]_vars


\* ------------------------------------------------------------ claim C27

\* The statements the classification prescribes for one filepath and one
\* author type: in_csv_file is the list of the catalogue, in_db the stored
\* list, and an empty list stands for an absent one
PrescribedFileAuthorOps(filepath_id, field, in_csv_file, in_db) ==
    LET delete ==
            << [op |-> "DELETE", row |-> FileAuthorRow(filepath_id, 0, field, 0)] >>
        inserts ==
            [i \in 1..Len(in_csv_file) |->
                [op |-> "INSERT",
                 row |-> FileAuthorRow(filepath_id, in_csv_file[i], field, i - 1)]]
    IN  IF in_csv_file = in_db THEN <<>>
        ELSE IF in_db = <<>> THEN inserts
        ELSE IF in_csv_file = <<>> THEN delete
        ELSE delete \o inserts

\* The stored authors of a filepath and an author type, in the order of
\* their positions
StoredAuthorList(filepath_id, field) ==
    AuthorsInOrder({r \in nvg_file_authors :
                      r.filepath_id = filepath_id /\ r.author_type = field})

\* C27: when the attribution step of an incremental run starts, the
\* statements it issues for every filepath and every author type are none
\* when the list of the catalogue is the stored list (or both are absent),
\* the inserts of the whole list at the positions 0..n-1 when only the
\* catalogue has a list, one delete of the whole group when only the store
\* has one, and that delete followed by the inserts of the whole list when
\* the two lists differ; and a step that commits logs exactly these
\* statements
C27_AttributionsAreReplacedWhole ==
    /\ [](pc = "file_authors" /\ ~build_db_flag /\ ~SnapshotMissing(5) =>
            \A p \in DOMAIN file_data : \A f \in Range(author_field_list) :
                FileAuthorOps(file_data[p]["ID"], f, file_data[p],
                              existing_filepath_id_author_info, FALSE)
                  = PrescribedFileAuthorOps(
                        file_data[p]["ID"], f,
                        IF Has(file_data[p], f) THEN file_data[p][f].list ELSE <<>>,
                        StoredAuthorList(file_data[p]["ID"], f)))
    /\ [][ (pc = "file_authors" /\ pc' = "title_aliases" /\ ~build_db_flag) =>
             \A p \in DOMAIN file_data :
                 LET id == file_data[p]["ID"]
                     prescribed(f) ==
                         PrescribedFileAuthorOps(
                             id, f,
                             IF Has(file_data[p], f) THEN file_data[p][f].list ELSE <<>>,
                             StoredAuthorList(id, f))
                     OfFile(s) == s.table = "nvg_file_authors" /\ s.ids = {id}
                     logged == SelectSeq(sql_log', OfFile)
                 IN  logged = Concat([j \in DOMAIN author_field_list |->
                                 [i \in DOMAIN prescribed(author_field_list[j]) |->
                                     Stmt(prescribed(author_field_list[j])[i].op,
                                          "nvg_file_authors", {id})]]) ]_vars

\* An incremental run has replaced the stored list of one author type of a
\* filepath by a different list of the catalogue: one DELETE, then the
\* INSERTs of the whole list
C27_Witness ==
    /\ pc = "title_aliases"
    /\ ~build_db_flag
    /\ \E p \in DOMAIN file_data : \E f \in Range(author_field_list) :
          /\ Has(file_data[p], f)
          /\ Len(file_data[p][f].list) = 2
          /\ file_data[p]["ID"] \in DOMAIN existing_filepath_id_author_info
          /\ f \in DOMAIN existing_filepath_id_author_info[file_data[p]["ID"]]
          /\ existing_filepath_id_author_info[file_data[p]["ID"]][f]
               # file_data[p][f].list
          /\ LET OfFile(s) == s.table = "nvg_file_authors"
                                 /\ s.ids = {file_data[p]["ID"]}
             IN  SelectSeq(sql_log, OfFile)
               = << Stmt("DELETE", "nvg_file_authors", {file_data[p]["ID"]}),
                    Stmt("INSERT", "nvg_file_authors", {file_data[p]["ID"]}),
                    Stmt("INSERT", "nvg_file_authors", {file_data[p]["ID"]}) >>


\* ------------------------------------------------------------ claim C28

\* The table batch a step of the run belongs to: the three passes of the
\* deletion loop follow the one connection.begin() of line 683 and are one
\* batch, every other writing step is a batch of its own
TableBatch(p) == IF p \in Range(DeletePc) THEN "delete" ELSE p

\* C28: the statements of a table batch are committed by exactly one commit:
\* a step that commits statements (the log of committed statements grows)
\* closes the transaction of its batch, so the next step of the run belongs
\* to another batch.
C28_OneCommitPerBatch ==
    [][ Len(sql_log') > Len(sql_log) => TableBatch(pc') # TableBatch(pc) ]_vars


\* ------------------------------------------------------------ claim C21

\* The current run was started with the options of the run before it. The
\* option --build (line 757) is observable in build_db_flag unless the run
\* found no database, for then line 914 sets the flag whatever the option
SameWay ==
    \/ last_run.found = "none"
    \/ run_start.db_state = "none"
    \/ build_db_flag = last_run.build

\* The run before this one was hit by a store error and aborted, and this
\* run, started the same way on the same files, has met no store error
RerunAfterStoreFailure ==
    /\ pc # "idle"
    /\ last_run.outcome = "aborted"
    /\ last_run.faulted
    /\ last_run.input = csv_input
    /\ SameWay
    /\ faults = run_start.faults

\* C21: a run that follows a run aborted by a store error, started the same
\* way on the same input and meeting no store error itself, is not stopped
\* by what the aborted run left behind when it selects the database and
\* reads what it holds; and when it has completed, the store holds the paths
\* of the catalogue, their attributes and their authors in order.
C21_RerunAfterFailureRebuilds ==
    /\ [][ (/\ RerunAfterStoreFailure
            /\ pc \in {"setup_db", "snapshot"}
            /\ faults' = faults) => pc' # "aborted" ]_vars
    /\ [](RerunAfterStoreFailure /\ pc = "done" =>
            /\ {r["filepath"] : r \in nvg} = DOMAIN file_data
            /\ C2_RowsHoldTheRecords
            /\ C4_AuthorsKeepTheirOrder)


\* ------------------------------------------------------------ claim C30

\* The ids of the rows are 1..N in the order of the keys the rows are
\* inserted by
IdsFollow(rows, id_column, name_column, Key(_)) ==
    /\ {r[id_column] : r \in rows} = 1..Cardinality(rows)
    /\ \A r, q \in rows :
          Key(r[name_column]) < Key(q[name_column]) => r[id_column] < q[id_column]

\* C30: a new build that has completed leaves the store the completed new
\* build before it left for the same input, row for row in every table; and
\* in the store of every completed new build the ids of the categories and
\* of the authors are 1..N in case-insensitive alphabetical order of the
\* names and the ids of the files are 1..N in the order of the sorted paths.
C30_BuildsAreReproducible ==
    /\ (/\ pc = "done"
        /\ build_db_flag
        /\ last_run.outcome = "done"
        /\ last_run.build
        /\ last_run.input = csv_input) => StoreTables = last_run.built
    /\ (pc = "done" /\ build_db_flag) =>
          /\ IdsFollow(nvg_type_ids, "type_id", "type_desc", LowerKey)
          /\ IdsFollow(nvg_publication_type_ids, "type_id", "type_desc", LowerKey)
          /\ IdsFollow(nvg_author_ids, "author_id", "author_name", LowerKey)
          /\ IdsFollow(nvg, "filepath_id", "filepath", PlainKey)

\* A second new build of a catalogue of two files with authors has
\* completed after a first one of the same catalogue
C30_Witness ==
    /\ pc = "done"
    /\ build_db_flag
    /\ last_run.outcome = "done"
    /\ last_run.build
    /\ last_run.input = csv_input
    /\ Cardinality(nvg) = 2
    /\ Cardinality(nvg_author_ids) >= 2
    /\ nvg_file_authors # {}


\* ------------------------- read_cpcpower_csv_file (nvg/csv.py, lines 70-120)

\* The rows a cross-reference file may have after its header row
MaxRows == 2

\* The texts of the ID column: blank, spaces, 0, 7, 12, a number between
\* spaces, signed numbers, and texts that are no integer
CpcsoftsIdChoices ==
    { << >>, << " " >>, << "0" >>, << "7" >>, << "1", "2" >>, << " ", "7", " " >>,
      << "-", "1" >>, << "-", "0" >>, << "+", "5" >>, << "x" >>, << "1", ".", "5" >> }

\* The rows csv.reader yields: a filepath and an ID, a filepath alone, and
\* the empty list of a blank line
CpcpowerRowChoices ==
    {<< p, t >> : p \in {"a.zip", "b.zip"}, t \in CpcsoftsIdChoices}
        \cup { << "a.zip" >>, << >> }

CpcpowerHeader == << "File path", << "C", "P", "C", "S", "O", "F", "T", "S" >> >>

RECURSIVE RowSequences(_)
RowSequences(n) ==
    IF n = 0 THEN { << >> }
    ELSE RowSequences(n - 1) \cup
           {Append(s, r) : s \in {q \in RowSequences(n - 1) : Len(q) = n - 1},
                           r \in CpcpowerRowChoices}

\* The files: the empty file, and a header row with up to MaxRows rows
CpcpowerFiles == { << >> } \cup {<< CpcpowerHeader >> \o s : s \in RowSequences(MaxRows)}

\* str.strip() of a text given by its characters
RECURSIVE strip(_)
strip(chars) ==
    IF Len(chars) > 0 /\ chars[1] = " " THEN strip(Tail(chars))
    ELSE IF Len(chars) > 0 /\ chars[Len(chars)] = " "
         THEN strip(SubSeq(chars, 1, Len(chars) - 1))
         ELSE chars

\* int(str): an optional sign and decimal digits give the number, any other
\* text raises ValueError
int_signed(chars) ==
    LET signed == Len(chars) > 0 /\ chars[1] \in {"+", "-"}
        digits == IF signed THEN Tail(chars) ELSE chars
    IN  IF Len(digits) > 0 /\ IsDigits(digits)
        THEN [ValueError |-> FALSE,
              value |-> IF signed /\ chars[1] = "-" THEN 0 - int(digits)
                        ELSE int(digits)]
        ELSE [ValueError |-> TRUE, value |-> 0]

\* Lines 98-118, the body of the loop for one row: row[0] or row[1] of a row
\* that is too short raises IndexError, which nothing catches
ReadCpcpowerRow(result, row) ==
    IF Len(row) < 2
    THEN [raised |-> "IndexError", data |-> EmptyDict, warnings |-> result.warnings]
    ELSE LET filepath == StrStrip(row[1])
             cpcsofts_id_str == strip(row[2])
             cpcsofts_id == int_signed(cpcsofts_id_str)
         IN  IF cpcsofts_id_str = << >>
             THEN [result EXCEPT !.data = Put(@, filepath, None)]
             ELSE IF ~cpcsofts_id.ValueError /\ cpcsofts_id.value >= 0
                  THEN [result EXCEPT
                            !.data = Put(@, filepath, IntVal(cpcsofts_id.value))]
                  ELSE [result EXCEPT !.data = Put(@, filepath, None),
                                      !.warnings = Append(@, filepath)]

RECURSIVE ReadCpcpowerRows(_, _)
ReadCpcpowerRows(result, rows) ==
    IF Len(rows) = 0 \/ result.raised # "none" THEN result
    ELSE ReadCpcpowerRows(ReadCpcpowerRow(result, rows[1]), Tail(rows))

\* read_cpcpower_csv_file: next() skips the header row (StopIteration when
\* the file has none), then every row is read in turn
read_cpcpower_csv_file(file) ==
    IF Len(file) = 0
    THEN [raised |-> "StopIteration", data |-> EmptyDict, warnings |-> << >>]
    ELSE ReadCpcpowerRows([raised |-> "none", data |-> EmptyDict, warnings |-> << >>],
                          Tail(file))

\* A call of read_cpcpower_csv_file
ReadCpcpowerCsvFile ==
    /\ cpcpower_call = NotRead
    /\ cpcpower_call' = read_cpcpower_csv_file(cpcpower_csv_file)
    /\ UNCHANGED << cpcpower_csv_file, databaseVars, storeVars, focus, langVars, run,
                    faults,
                    csv_input, last_run, run_start, pc, localVars >>

CpcpowerInit ==
    /\ db_state = "none"
    /\ EmptyStore
    /\ focus = "files"
    /\ run = 0
    /\ faults = 0
    /\ csv_input = NoInput
    /\ last_run = NoRun
    /\ run_start = NoStart
    /\ pc = "idle"
    /\ build_db_flag = FALSE
    /\ file_data = EmptyDict
    /\ author_aliases_dict = EmptyDict
    /\ type_ids_dict = EmptyDict
    /\ publication_type_ids_dict = EmptyDict
    /\ snapshot_reads = 0
    /\ existing_filepath_ids = EmptyDict
    /\ existing_title_aliases_dict = EmptyDict
    /\ existing_filepath_id_author_info = EmptyDict
    /\ author_ids_dict = EmptyDict
    /\ authors_to_add = <<>>
    /\ sql_log = <<>>
    /\ nvg_language_codes = {}
    /\ languages_column_set = {}
    /\ languages_in_use = {}
    /\ language_call = NoCall
    /\ cpcpower_csv_file \in CpcpowerFiles
    /\ cpcpower_call = NotRead
    /\ database_call = NotCalled

CpcpowerNext == ReadCpcpowerCsvFile

CpcpowerSpec == CpcpowerInit /\ [][CpcpowerNext]_vars

\* ------------------------------------------------------------ claim C26

\* The filepath of a row and the text of its ID column (blank when the row
\* has no such column)
RowFilepath(row) == StrStrip(row[1])
RowIdColumn(row) == IF Len(row) >= 2 THEN strip(row[2]) ELSE << >>

\* The ID column holds a negative or a non-numeric value
IdMalformed(text) ==
    /\ text # << >>
    /\ int_signed(text).ValueError \/ int_signed(text).value < 0

\* C26: read_cpcpower_csv_file returns for every file that has its header
\* row: every filepath of a row of the file is a key of the result and the
\* result has no other key; the value of a filepath is that of its last
\* row, None when the ID column is blank, negative or non-numeric and the
\* integer otherwise (0 included); and there is one warning for every row
\* whose ID is negative or non-numeric. No row makes the call raise.
C26_EveryPathGetsItsValue ==
    (cpcpower_call # NotRead /\ Len(cpcpower_csv_file) >= 1) =>
        LET rows == {i \in 2..Len(cpcpower_csv_file) : Len(cpcpower_csv_file[i]) >= 1}
            last(p) == CHOOSE i \in rows :
                          /\ RowFilepath(cpcpower_csv_file[i]) = p
                          /\ \A j \in rows :
                                RowFilepath(cpcpower_csv_file[j]) = p => j <= i
        IN  /\ cpcpower_call.raised = "none"
            /\ DOMAIN cpcpower_call.data =
                   {RowFilepath(cpcpower_csv_file[i]) : i \in rows}
            /\ \A p \in DOMAIN cpcpower_call.data :
                  LET text == RowIdColumn(cpcpower_csv_file[last(p)])
                  IN  cpcpower_call.data[p] =
                          IF text = << >> \/ IdMalformed(text) THEN None
                          ELSE IntVal(int_signed(text).value)
            /\ Len(cpcpower_call.warnings) =
                   Cardinality({i \in rows :
                                  IdMalformed(RowIdColumn(cpcpower_csv_file[i]))})


\* ------------------------------------------------------------ claim C31

\* The names the files of the run refer to: every name of every author
\* field of the catalogue, and every alias and name of the alias file
ReferencedNames(input) ==
    UNION {Range(RecordAuthorNames(input.catalog[p])) : p \in DOMAIN input.catalog}
      \cup (DOMAIN read_author_aliases_csv_file(input.aliases))
      \cup Range(read_author_aliases_csv_file(input.aliases))

\* C31: in every store state no two author rows have the same name; a step
\* of a run gives no stored name another id; and the registration of the
\* authors of a run adds exactly one row for every name the input refers to
\* that is not stored yet, and none for a name that is stored.
C31_AuthorNamesAreUnique ==
    /\ [](\A r, q \in nvg_author_ids : r["author_name"] = q["author_name"] => r = q)
    /\ [][ \A r \in nvg_author_ids : \A q \in nvg_author_ids' :
              r["author_name"] = q["author_name"] => r["author_id"] = q["author_id"]
         ]_vars
    /\ [][ (pc = "insert_authors" /\ pc' # "aborted") =>
              LET stored == {r["author_name"] : r \in nvg_author_ids}
                  added == {r["author_name"] : r \in nvg_author_ids' \ nvg_author_ids}
              IN  /\ nvg_author_ids \subseteq nvg_author_ids'
                  /\ added = ReferencedNames(csv_input) \ stored
                  /\ Cardinality(nvg_author_ids') =
                         Cardinality(nvg_author_ids) + Cardinality(added)
                  /\ Len(sql_log') = Len(sql_log) + Cardinality(added) ]_vars

\* An incremental run has registered a new author while its input refers,
\* in two places, to an author the run before it had stored
C31_Witness ==
    /\ pc = "done"
    /\ ~build_db_flag
    /\ last_run.outcome = "done"
    /\ \E i \in DOMAIN sql_log : sql_log[i].op = "INSERT"
                                   /\ sql_log[i].table = "nvg_author_ids"
    /\ \E n \in ReferencedNames(last_run.input) :
          /\ \E p \in DOMAIN csv_input.catalog :
                Cardinality({i \in DOMAIN RecordAuthorNames(csv_input.catalog[p]) :
                               RecordAuthorNames(csv_input.catalog[p])[i] = n}) >= 2
                  \/ \E q \in DOMAIN csv_input.catalog :
                        /\ q # p
                        /\ n \in Range(RecordAuthorNames(csv_input.catalog[p]))
                        /\ n \in Range(RecordAuthorNames(csv_input.catalog[q]))
          /\ \E r \in nvg_author_ids :
                r["author_name"] = n /\ r["author_id"] < auto_increment.nvg_author_ids - 1


\* ------------------------------------------------------------ claim C32

\* The filepaths an incremental run inserts: those of the catalogue that the
\* snapshot of the filepaths does not hold
InsertedInRun == (DOMAIN file_data) \ (DOMAIN existing_filepath_ids)

\* C32: in an incremental run the snapshots of the attributions and of the
\* title aliases are not read again after the reads that precede the
\* deletion; and when both syncs have committed, every filepath the run
\* inserted has an id that is in neither snapshot, its stored attributions
\* are the lists of its record in their order, its stored title aliases are
\* the titles of its record, and the statements the syncs issued for it are
\* INSERTs only, one for every author and every title.
C32_InsertedFilesGetTheirLists ==
    /\ [][ (~build_db_flag
            /\ pc \notin {"idle", "done", "aborted", "setup_db", "snapshot"}) =>
              UNCHANGED << existing_title_aliases_dict,
                           existing_filepath_id_author_info >> ]_vars
    /\ []((~build_db_flag /\ pc \in {"close", "done"}) =>
            \A p \in InsertedInRun :
                LET id == file_data[p]["ID"]
                    OfFile(s) == /\ s.table \in {"nvg_file_authors", "nvg_title_aliases"}
                                 /\ s.ids = {id}
                    titles == IF Has(file_data[p], "ALSO KNOWN AS")
                              THEN file_data[p]["ALSO KNOWN AS"].list ELSE << >>
                    authors == Concat([j \in DOMAIN author_field_list |->
                                  IF Has(file_data[p], author_field_list[j])
                                  THEN file_data[p][author_field_list[j]].list
                                  ELSE << >>])
                IN  /\ id \notin DOMAIN existing_filepath_id_author_info
                    /\ id \notin DOMAIN existing_title_aliases_dict
                    /\ \A f \in Range(author_field_list) :
                          StoredAuthorList(id, f) =
                              IF Has(file_data[p], f) THEN file_data[p][f].list
                              ELSE << >>
                    /\ {r.title : r \in {q \in nvg_title_aliases : q.filepath_id = id}}
                          = Range(titles)
                    /\ SelectSeq(sql_log, OfFile) =
                          [i \in 1..Len(authors) |->
                              Stmt("INSERT", "nvg_file_authors", {id})]
                            \o [i \in 1..Len(titles) |->
                                  Stmt("INSERT", "nvg_title_aliases", {id})])

\* An incremental run has deleted a filepath that the snapshots hold authors
\* or title aliases for, and has inserted a filepath with a title alias
C32_Witness ==
    /\ pc = "done"
    /\ ~build_db_flag
    /\ \E i \in DOMAIN sql_log : sql_log[i].op = "DELETE" /\ sql_log[i].table = "nvg"
    /\ \E id \in (DOMAIN existing_title_aliases_dict)
                    \cup (DOMAIN existing_filepath_id_author_info) :
          \A r \in nvg : r["filepath_id"] # id
    /\ \E p \in InsertedInRun :
          /\ Has(file_data[p], "ALSO KNOWN AS")
          /\ \E r \in nvg_title_aliases : r.filepath_id = file_data[p]["ID"]


\* ------------------------------------------------------------ claim C33

\* The steps of a run that follow the registration of the authors
AfterRegistration ==
    {"update_aliases", "convert", "update_files", "insert_files", "file_authors",
     "title_aliases", "close", "done"}

\* C33: once the authors of a run are registered, every name of every author
\* field of every record of the catalogue, split at the commas and stripped,
\* is a key of author_ids_dict with an ID; and the conversion never ends the
\* program for a name without an ID: when it ends the program, a record has
\* the upload date that raises the KeyError of line 1237.
C33_EveryNameHasAnId ==
    /\ [](pc \in AfterRegistration =>
            \A p \in DOMAIN csv_input.catalog : \A f \in Range(author_field_list) :
                Has(csv_input.catalog[p], f) =>
                    \A i \in DOMAIN csv_input.catalog[p][f].str :
                        LET name == StrStrip(csv_input.catalog[p][f].str[i])
                        IN  /\ name \in DOMAIN author_ids_dict
                            /\ Has(author_ids_dict[name], "ID"))
    /\ [][ (pc = "convert" /\ pc' = "aborted") =>
              \E p \in DOMAIN file_data : UploadDateRaises(file_data[p]) ]_vars

\* The conversion of an incremental run has replaced the names of a field
\* that lists two authors, one of them stored by an earlier run and one
\* registered by this run
C33_Witness ==
    /\ pc = "update_files"
    /\ ~build_db_flag
    /\ Len(authors_to_add) > 0
    /\ \E p \in DOMAIN csv_input.catalog : \E f \in Range(author_field_list) :
          /\ Has(csv_input.catalog[p], f)
          /\ Len(csv_input.catalog[p][f].str) = 2
          /\ StrStrip(csv_input.catalog[p][f].str[1]) \notin Range(authors_to_add)
          /\ StrStrip(csv_input.catalog[p][f].str[2]) \in Range(authors_to_add)
          /\ file_data[p][f] =
                ListVal([i \in 1..2 |->
                    author_ids_dict[StrStrip(csv_input.catalog[p][f].str[i])]["ID"]])


\* C37: a call of delete_language that no store error interrupts, for a code
\* that a row of nvg uses, raises DataError 1265 ('at least one row uses
\* this language code') and leaves the vocabulary and the SET as they were;
\* for a code that no row uses it raises nothing, takes the code out of the
\* SET (the ALTER TABLE is executed first and commits by itself), deletes
\* the row of the vocabulary, and returns True iff there was such a row
C37_DeleteLanguageGuardsCodesInUse ==
    [][ (language_call'.method = "delete_language" /\ faults' = faults)
        => LET code == language_call'.code
           IN  IF code \in languages_in_use
               THEN /\ language_call'.raised = Raised("DataError", WARN_DATA_TRUNCATED)
                    /\ language_call'.returned = None
                    /\ UNCHANGED << nvg_language_codes, languages_column_set >>
                    /\ code \in languages_column_set
               ELSE /\ language_call'.raised = NoError
                    /\ languages_column_set' = languages_column_set \ {code}
                    /\ nvg_language_codes' = nvg_language_codes \ {code}
                    /\ language_call'.returned = (code \in nvg_language_codes)
                    /\ language_call'.returned = (nvg_language_codes' # nvg_language_codes)
      ]_vars

\* C37 witness: delete_language of a code in use has raised, the row of the
\* vocabulary and the member of the SET are in place
C37_Witness ==
    /\ language_call.method = "delete_language"
    /\ language_call.code \in languages_in_use
    /\ language_call.raised = Raised("DataError", WARN_DATA_TRUNCATED)
    /\ language_call.code \in nvg_language_codes
    /\ language_call.code \in languages_column_set
    /\ faults = 0

\* ------------------- class Database: authors, types and filepaths, by call

\* The calls of methods of class Database in one behaviour
MaxCalls == 2

\* Exceptions of Python, and the error of the server for a row that a key
\* of its table refuses (the driver raises it as IntegrityError)
TypeError == Raised("TypeError", 0)
ValueError == Raised("ValueError", 0)
AssertionError == Raised("AssertionError", 0)
IntegrityError == Raised("IntegrityError", 0)

\* An integer of Python from 2^31 on, which is above the integers of the
\* model checker: the integer high * 2^16 + low with low in 0..65535, so
\* Wide(65535, 65535) is 4294967295 and Wide(65536, 0) is 4294967296
Wide(high, low) == [high |-> high, low |-> low]
IsWide(v) == DOMAIN v = {"high", "low"}

\* isinstance(v, int)
IsInteger(v) == IsInt(v) \/ IsWide(v)

\* a <= b for two integers of Python
Halves(v) == IF IsWide(v) THEN << v.high, v.low >> ELSE << v.int \div 65536, v.int % 65536 >>
Le(a, b) ==
    \/ Halves(a)[1] < Halves(b)[1]
    \/ Halves(a)[1] = Halves(b)[1] /\ Halves(a)[2] <= Halves(b)[2]

\* The id arguments of the calls: None, a str, and integers at and next to
\* the ends of the ranges of the columns
TypeIdArgs ==
    {None, StrVal(<<"7">>)} \cup {IntVal(n) : n \in {0 - 1, 0, 1, 255, 256}}

AuthorIdArgs ==
    {None, StrVal(<<"7">>)} \cup {IntVal(n) : n \in {0 - 1, 0, 1, 2, 65535, 65536}}

AliasIdArgs == {None, StrVal(<<"7">>)} \cup {IntVal(n) : n \in {0, 1, 9, 65536}}

FilepathIdArgs ==
    {None, StrVal(<<"7">>), Wide(65535, 65535), Wide(65536, 0)}
        \cup {IntVal(n) : n \in {0, 1, 2}}

\* The **keywords of insert_filepath and update_filepath: column names with
\* values that are not None, and a name that is no column
KeywordArgs ==
    { EmptyDict,
      "title" :> "T",
      "title" :> "U",
      "type_id" :> 1,
      "type_id" :> 9,
      ("title" :> "T") @@ ("type_id" :> 1),
      "filepath" :> "b.zip",
      "colour" :> "red",
      ("title" :> "U") @@ ("colour" :> "red") }

\* valid_column_keywords (lines 27-32)
valid_column_keywords ==
    {"filepath", "file_size", "cpcsofts_id", "title", "company", "year", "languages",
     "type_id", "subtype", "title_screen", "cheat_mode", "protected", "problems",
     "upload_date", "uploader", "comments", "original_title", "publication_type_id",
     "publisher_code", "barcode", "dl_code", "memory_required", "run_command",
     "protection"}

\* id in range(low, high + 1) for any value of id: False for None and a str
InRange(id, low, high) == IsInteger(id) /\ Le(low, id) /\ Le(id, high)

\* A check of the lower end of the range only
ValidateId_lower_only(id, low, high) ==
    IF id = None THEN NoError
    ELSE IF ~IsInteger(id) THEN TypeError
    ELSE IF ~Le(low, id) THEN ValueError
    ELSE NoError

\* 'if id is not None: if not isinstance(id, int): raise TypeError ... elif
\* id not in range(low, high + 1): raise ValueError' (lines 61-66, 67-72,
\* 425-430, 682-687, 968-974)
ValidateId(id, low, high) ==
    IF id = None THEN NoError
    ELSE IF ~IsInteger(id) THEN TypeError
    ELSE IF ~InRange(id, low, high) THEN ValueError
    ELSE NoError

\* _validate_author_ids(id, alias_of_id), lines 49-73
validate_author_ids(id, alias_of_id) ==
    IF ValidateId(id, IntVal(0), IntVal(65535)) # NoError
    THEN ValidateId(id, IntVal(0), IntVal(65535))
    ELSE ValidateId(alias_of_id, IntVal(1), IntVal(65535))

\* The loop of lines 479-483 (both is TRUE) and 609-612 (both is FALSE)
KeywordsRefused(keywords, both) ==
    \E keyword \in DOMAIN keywords :
        \/ keyword \notin valid_column_keywords
        \/ both /\ keyword \in {"filepath", "file_size"}

\* What a call leaves: the rows of its table, the AUTO_INCREMENT counter of
\* the table, what it raised, what it returned, and whether it had reached
\* self.connect()
Outcome(rows, counter, raised, returned, connected) ==
    [rows |-> rows, counter |-> counter, raised |-> raised, returned |-> returned,
     connected |-> connected]

\* The AUTO_INCREMENT counter of nvg_type_ids and nvg_publication_type_ids:
\* no method deletes a row of the two tables, so it is one more than the
\* greatest id
TypeCounter(rows) ==
    IF rows = {} THEN 1
    ELSE 1 + (CHOOSE n \in {r.type_id : r \in rows} : \A r \in rows : r.type_id <= n)

\* The counter after a row with this id is stored
CounterAfter(counter, id) == IF id >= counter THEN id + 1 ELSE counter

\* insert_file_type (lines 425-454) and insert_publication_type (lines
\* 968-995) on the rows of their table: the server gives the row the next
\* id when id is None or 0, and refuses an id that a row has and an id
\* above the range of TINYINT UNSIGNED
InsertType(rows, description, id) ==
    LET invalid == ValidateId(id, IntVal(0), IntVal(255))
        counter == TypeCounter(rows)
        new_id == IF id = None \/ id.int = 0 THEN counter ELSE id.int
    IN  IF invalid # NoError THEN Outcome(rows, counter, invalid, None, FALSE)
        ELSE IF new_id > 255 \/ (\E r \in rows : r.type_id = new_id)
        THEN Outcome(rows, counter, IntegrityError, None, TRUE)
        ELSE Outcome(rows \cup {[type_id |-> new_id, type_desc |-> description]},
                     CounterAfter(counter, new_id), NoError, IntVal(new_id), TRUE)

\* The foreign key fk_alias_of_author (src/sql.py:250): the alias is NULL or
\* the id of a row
FkAliasOk(alias_of_id, ids) == alias_of_id = None \/ alias_of_id.int \in ids

\* The row of nvg_author_ids for (author_id, author_name, alias_of_author_id)
AuthorRowWithAlias(id, name, alias_of_id) ==
    IF alias_of_id = None THEN AuthorRow(id, name)
    ELSE AuthorRow(id, name) @@ ("alias_of_author_id" :> alias_of_id.int)

\* insert_author(name, id, alias_of_id), lines 246-274
insert_author(name, id, alias_of_id) ==
    LET invalid == validate_author_ids(id, alias_of_id)
        counter == auto_increment.nvg_author_ids
        new_id == IF id = None \/ id.int = 0 THEN counter ELSE id.int
        ids == {r["author_id"] : r \in nvg_author_ids}
    IN  IF invalid # NoError
        THEN Outcome(nvg_author_ids, counter, invalid, None, FALSE)
        ELSE IF new_id > 65535 \/ new_id \in ids
                  \/ ~FkAliasOk(alias_of_id, ids \cup {new_id})
        THEN Outcome(nvg_author_ids, counter, IntegrityError, None, TRUE)
        ELSE Outcome(nvg_author_ids \cup {AuthorRowWithAlias(new_id, name, alias_of_id)},
                     CounterAfter(counter, new_id), NoError, IntVal(new_id), TRUE)

\* update_author(id, name, alias_of_id), lines 277-305.  The two assert
\* statements (292-293) come after self.connect() and
\* self.connection.begin() (281-284); the
\* value of cursor.execute is the number of rows the UPDATE changed, which
\* is 0 for a row that already holds the values
update_author(id, name, alias_of_id) ==
    LET invalid == validate_author_ids(id, alias_of_id)
        counter == auto_increment.nvg_author_ids
        found == {r \in nvg_author_ids : r["author_id"] = id.int}
        ids == {r["author_id"] : r \in nvg_author_ids}
        changed == {r \in found : r # AuthorRowWithAlias(id.int, name, alias_of_id)}
    IN  IF invalid # NoError
        THEN Outcome(nvg_author_ids, counter, invalid, None, FALSE)
        ELSE IF \/ ~InRange(id, IntVal(1), IntVal(65535))
                \/ ~InRange(alias_of_id, IntVal(1), IntVal(65535))
        THEN Outcome(nvg_author_ids, counter, AssertionError, None, TRUE)
        ELSE IF changed # {} /\ ~FkAliasOk(alias_of_id, ids)
        THEN Outcome(nvg_author_ids, counter, IntegrityError, None, TRUE)
        ELSE Outcome((nvg_author_ids \ changed) \cup
                         {AuthorRowWithAlias(id.int, name, alias_of_id) : r \in changed},
                     counter, NoError, changed # {}, TRUE)

\* PRIMARY KEY (filepath_id), UNIQUE INDEX (filepath) and the foreign key
\* fk_type_id of table nvg (src/sql.py:226-228) for a row among others
NvgRowOk(row, others) ==
    /\ \A r \in others : r["filepath_id"] # row["filepath_id"]
    /\ \A r \in others : r["filepath"] # row["filepath"]
    /\ Has(row, "type_id") => \E t \in nvg_type_ids : t.type_id = row["type_id"]

\* insert_filepath(filepath, file_size, id, **keywords), lines 457-585, for
\* keywords that name no date, no languages and no type by its description,
\* and an id below 2^31 when the row is stored
insert_filepath(filepath, file_size, id, keywords) ==
    LET counter == auto_increment.nvg
        new_id == IF id = None \/ id.int = 0 THEN counter ELSE id.int
        row == Update(("filepath_id" :> new_id) @@ ("filepath" :> filepath)
                          @@ ("file_size" :> file_size) @@ ("comments" :> ""),
                      keywords)
    IN  IF KeywordsRefused(keywords, TRUE)
        THEN Outcome(nvg, counter, TypeError, None, FALSE)
        ELSE IF \/ ~(id = None \/ InRange(id, IntVal(0), Wide(65535, 65535)))
                \/ ~(file_size >= 0)
        THEN Outcome(nvg, counter, AssertionError, None, TRUE)
        ELSE IF ~NvgRowOk(row, nvg)
        THEN Outcome(nvg, counter, IntegrityError, None, TRUE)
        ELSE Outcome(nvg \cup {row}, CounterAfter(counter, new_id), NoError,
                     IntVal(new_id), TRUE)

\* The rows that the UPDATE changes: cursor.execute returns their number
\* (the connection of lines 109-111 does not set the flag CLIENT.FOUND_ROWS)
RowsUpdated(found, keywords) == {r \in found : Update(r, keywords) # r}

\* update_filepath(id, **keywords), lines 588-678, for keywords that name
\* no date and no languages
update_filepath(id, keywords) ==
    LET counter == auto_increment.nvg
        found == {r \in nvg : IsInt(id) /\ r["filepath_id"] = id.int}
        changed == RowsUpdated(found, keywords)
    IN  IF DOMAIN keywords = {}
        THEN Outcome(nvg, counter, NoError, FALSE, FALSE)
        ELSE IF KeywordsRefused(keywords, FALSE)
        THEN Outcome(nvg, counter, TypeError, None, FALSE)
        ELSE IF ~InRange(id, IntVal(0), Wide(65535, 65535))
        THEN Outcome(nvg, counter, AssertionError, None, TRUE)
        ELSE IF \E r \in found : Update(r, keywords) # r
                                   /\ ~NvgRowOk(Update(r, keywords), nvg \ {r})
        THEN Outcome(nvg, counter, IntegrityError, None, TRUE)
        ELSE Outcome((nvg \ found) \cup {Update(r, keywords) : r \in found},
                     counter, NoError, changed # {}, TRUE)

\* delete_filepath(id), lines 681-705: None is passed on to the server,
\* where filepath_id = NULL matches no row
delete_filepath(id) ==
    LET invalid == ValidateId(id, IntVal(1), Wide(65535, 65535))
        counter == auto_increment.nvg
        found == {r \in nvg : IsInt(id) /\ r["filepath_id"] = id.int}
    IN  IF invalid # NoError THEN Outcome(nvg, counter, invalid, None, FALSE)
        ELSE IF ~FkFilepathDeleteOk({r["filepath_id"] : r \in found},
                                    nvg_file_authors, nvg_title_aliases)
        THEN Outcome(nvg, counter, IntegrityError, None, TRUE)
        ELSE Outcome(nvg \ found, counter, NoError, found # {}, TRUE)

\* The state a call leaves, but for the table of the method
DatabaseCall(method, args, result) ==
    /\ database_call.calls < MaxCalls
    /\ database_call' =
          [method |-> method, args |-> args, raised |-> result.raised,
           returned |-> result.returned, connected |-> result.connected,
           calls |-> database_call.calls + 1]
    /\ UNCHANGED << db_state, nvg_file_authors, nvg_title_aliases, focus, langVars,
                    cpcpowerVars, run, faults, csv_input, last_run, run_start, pc,
                    localVars >>

InsertFileType ==
    \E id \in TypeIdArgs :
        LET result == InsertType(nvg_type_ids, "Utility", id)
        IN  /\ DatabaseCall("insert_file_type", "id" :> id, result)
            /\ nvg_type_ids' = result.rows
            /\ UNCHANGED << nvg, nvg_publication_type_ids, nvg_author_ids,
                            auto_increment >>

InsertPublicationType ==
    \E id \in TypeIdArgs :
        LET result == InsertType(nvg_publication_type_ids, "Freeware", id)
        IN  /\ DatabaseCall("insert_publication_type", "id" :> id, result)
            /\ nvg_publication_type_ids' = result.rows
            /\ UNCHANGED << nvg, nvg_type_ids, nvg_author_ids, auto_increment >>

InsertAuthor ==
    \E id \in AuthorIdArgs, alias_of_id \in AliasIdArgs :
        LET result == insert_author("Carol", id, alias_of_id)
        IN  /\ DatabaseCall("insert_author",
                            ("id" :> id) @@ ("alias_of_id" :> alias_of_id), result)
            /\ nvg_author_ids' = result.rows
            /\ auto_increment' = [auto_increment EXCEPT !.nvg_author_ids = result.counter]
            /\ UNCHANGED << nvg, nvg_type_ids, nvg_publication_type_ids >>

UpdateAuthor ==
    \E id \in AuthorIdArgs, name \in {"Al", "Alan"}, alias_of_id \in AliasIdArgs :
        LET result == update_author(id, name, alias_of_id)
        IN  /\ DatabaseCall("update_author",
                            ("id" :> id) @@ ("name" :> name)
                                @@ ("alias_of_id" :> alias_of_id), result)
            /\ nvg_author_ids' = result.rows
            /\ UNCHANGED << nvg, nvg_type_ids, nvg_publication_type_ids,
                            auto_increment >>

InsertFilepath ==
    \E id \in FilepathIdArgs \ {Wide(65535, 65535)}, filepath \in {"a.zip", "c.zip"},
       keywords \in KeywordArgs :
        LET result == insert_filepath(filepath, 10, id, keywords)
        IN  /\ DatabaseCall("insert_filepath",
                            ("id" :> id) @@ ("keywords" :> keywords), result)
            /\ nvg' = result.rows
            /\ auto_increment' = [auto_increment EXCEPT !.nvg = result.counter]
            /\ UNCHANGED << nvg_type_ids, nvg_publication_type_ids, nvg_author_ids >>

UpdateFilepath ==
    \E id \in FilepathIdArgs, keywords \in KeywordArgs :
        LET result == update_filepath(id, keywords)
        IN  /\ DatabaseCall("update_filepath",
                            ("id" :> id) @@ ("keywords" :> keywords), result)
            /\ nvg' = result.rows
            /\ UNCHANGED << nvg_type_ids, nvg_publication_type_ids, nvg_author_ids,
                            auto_increment >>

DeleteFilepath ==
    \E id \in FilepathIdArgs :
        LET result == delete_filepath(id)
        IN  /\ DatabaseCall("delete_filepath", "id" :> id, result)
            /\ nvg' = result.rows
            /\ UNCHANGED << nvg_type_ids, nvg_publication_type_ids, nvg_author_ids,
                            auto_increment >>

\* A database that a build has filled: one type and one publication type,
\* the author Alice and her alias Al, file a.zip with its title, its type
\* and a title alias, and file b.zip
DatabaseInit ==
    /\ db_state = "ok"
    /\ nvg_type_ids = {[type_id |-> 1, type_desc |-> "Arcade game"]}
    /\ nvg_publication_type_ids = {[type_id |-> 1, type_desc |-> "Commercial"]}
    /\ nvg_author_ids =
          {AuthorRow(1, "Alice"), AuthorRow(2, "Al") @@ ("alias_of_author_id" :> 1)}
    /\ nvg = { ("filepath_id" :> 1) @@ ("filepath" :> "a.zip") @@ ("file_size" :> 10)
                   @@ ("title" :> "T") @@ ("type_id" :> 1) @@ ("comments" :> ""),
               ("filepath_id" :> 2) @@ ("filepath" :> "b.zip") @@ ("file_size" :> 20)
                   @@ ("comments" :> "") }
    /\ nvg_file_authors = {}
    /\ nvg_title_aliases = {TitleAliasRow(1, "X")}
    /\ auto_increment = [nvg |-> 3, nvg_author_ids |-> 3]
    /\ focus = "files"
    /\ run = 0
    /\ faults = 0
    /\ csv_input = NoInput
    /\ last_run = NoRun
    /\ run_start = NoStart
    /\ pc = "idle"
    /\ build_db_flag = FALSE
    /\ file_data = EmptyDict
    /\ author_aliases_dict = EmptyDict
    /\ type_ids_dict = EmptyDict
    /\ publication_type_ids_dict = EmptyDict
    /\ snapshot_reads = 0
    /\ existing_filepath_ids = EmptyDict
    /\ existing_title_aliases_dict = EmptyDict
    /\ existing_filepath_id_author_info = EmptyDict
    /\ author_ids_dict = EmptyDict
    /\ authors_to_add = <<>>
    /\ sql_log = <<>>
    /\ nvg_language_codes = {}
    /\ languages_column_set = {}
    /\ languages_in_use = {}
    /\ language_call = NoCall
    /\ cpcpower_csv_file = << >>
    /\ cpcpower_call = NotRead
    /\ database_call = NotCalled

DatabaseNext ==
    \/ InsertFileType
    \/ InsertPublicationType
    \/ InsertAuthor
    \/ UpdateAuthor
    \/ InsertFilepath
    \/ UpdateFilepath
    \/ DeleteFilepath

DatabaseSpec == DatabaseInit /\ [][DatabaseNext]_vars

\* ------------------------------------------------------------ claim C34

\* C34: update_author called with an author id of 1..65535 and alias_of_id
\* None raises nothing; when a row with that id exists it returns True and
\* the row then has the name passed and no alias link, and when none exists
\* it returns False
C34_UpdateAuthorClearsTheLink ==
    [][ (/\ database_call'.method = "update_author"
         /\ database_call'.args["alias_of_id"] = None
         /\ InRange(database_call'.args["id"], IntVal(1), IntVal(65535)))
        => LET id == database_call'.args["id"].int
               exists == \E r \in nvg_author_ids : r["author_id"] = id
           IN  /\ database_call'.raised = NoError
               /\ database_call'.returned = exists
               /\ exists => AuthorRow(id, database_call'.args["name"]) \in nvg_author_ids'
      ]_vars

\* ------------------------------------------------------------ claim C35

\* An integer that is not in low..high
Outside(id, low, high) == IsInteger(id) /\ ~(Le(low, id) /\ Le(id, high))

\* The call that the step makes raised this error before self.connect(),
\* and no table has changed
FailsBeforeTheStore(error) ==
    /\ database_call'.raised = error
    /\ ~database_call'.connected
    /\ UNCHANGED storeVars

\* C35: a call with an argument that is not valid fails before any access
\* to the store and changes no table: insert_file_type and
\* insert_publication_type raise TypeError for an id that is not None and
\* not an integer, and ValueError for an integer outside 0..255;
\* insert_author raises ValueError for an id outside 0..65535 and raises
\* for an alias id outside 1..65535; delete_filepath raises ValueError for
\* an id outside 1..4294967295; insert_filepath and update_filepath raise
\* TypeError for a keyword that is no column; update_filepath without
\* keywords returns False without a connection
C35_InvalidArgumentsFailBeforeTheStore ==
    [][ LET method == database_call'.method
            id == database_call'.args["id"]
        IN  /\ method \in {"insert_file_type", "insert_publication_type"} =>
                  /\ (id # None /\ ~IsInteger(id)) => FailsBeforeTheStore(TypeError)
                  /\ Outside(id, IntVal(0), IntVal(255)) =>
                         FailsBeforeTheStore(ValueError)
            /\ method = "insert_author" =>
                  /\ Outside(id, IntVal(0), IntVal(65535)) =>
                         FailsBeforeTheStore(ValueError)
                  /\ Outside(database_call'.args["alias_of_id"], IntVal(1), IntVal(65535)) =>
                         \/ FailsBeforeTheStore(ValueError)
                         \/ FailsBeforeTheStore(TypeError)
            /\ method = "delete_filepath" =>
                  (Outside(id, IntVal(1), Wide(65535, 65535)) =>
                      FailsBeforeTheStore(ValueError))
            /\ method \in {"insert_filepath", "update_filepath"} =>
                  ((\E keyword \in DOMAIN database_call'.args["keywords"] :
                        keyword \notin valid_column_keywords) =>
                      FailsBeforeTheStore(TypeError))
            /\ (method = "update_filepath"
                   /\ DOMAIN database_call'.args["keywords"] = {}) =>
                  /\ FailsBeforeTheStore(NoError)
                  /\ database_call'.returned = FALSE
      ]_vars

\* C35 witness: after a call that changed the store, delete_filepath of
\* 4294967296 has raised ValueError without a connection
C35_Witness ==
    /\ database_call.method = "delete_filepath"
    /\ database_call.args["id"] = Wide(65536, 0)
    /\ database_call.raised = ValueError
    /\ ~database_call.connected
    /\ database_call.calls = 2
    /\ \E r \in nvg_type_ids : r.type_id = 255

\* ------------------------------------------------------------ claim C36

\* C36: a call of update_filepath that raises nothing returns False only
\* when it was passed no keywords or no row of nvg has the id, and True
\* otherwise: also when the row already holds the values passed
C36_UpdateFilepathReportsTheRow ==
    [][ (database_call'.method = "update_filepath" /\ database_call'.raised = NoError)
        => LET id == database_call'.args["id"]
               exists == \E r \in nvg : IsInt(id) /\ r["filepath_id"] = id.int
           IN  database_call'.returned =
                   (DOMAIN database_call'.args["keywords"] # {} /\ exists)
      ]_vars

================================================================
